---- MODULE Spec2Model ----
(***************************************************************************)
(* Model of the ChessAnalysis game viewer (acco/game_viewer.py) and of its *)
(* game store (acco/fetch_games.py): the SQLite table "games", the move    *)
(* replay cursor of the viewer and the background evaluation runs.         *)
(***************************************************************************)
EXTENDS Integers, Sequences, FiniteSets, TLC

(***************************************************************************)
(* Bounds of the model.                                                    *)
(***************************************************************************)
\* number of plies of the longest game of the catalogue
MaxPlies == 2
\* number of records of the longest fetched batch
MaxBatch == 2
\* number of evaluation runs ("Run Analysis" clicks) of one session
MaxRuns == 2

(***************************************************************************)
(* Program constants.                                                      *)
(***************************************************************************)
\* initialvalue of the depth dialog
DefaultDepth == 10
\* ttk.Scale delivers a float; the model counts slider values in halves
SliderUnit == 2

(***************************************************************************)
(* chess.Board: a position is the piece placement on a tiny board plus the *)
(* ply counter (python-chess compares turn and move numbers as well).      *)
(* A board is its root position and the stack of pushed moves; pop()       *)
(* restores the state before the last push.                                *)
(***************************************************************************)
Squares == 1..4

Move(f, t) == [from_square |-> f, to_square |-> t]

\* chess.Board(): the standard starting position
StartingPosition == [pieces |-> <<"P", "N", "-", "-">>, ply |-> 0]

\* the position of a [SetUp "1"][FEN "..."] game: knight odds
OddsPosition == [pieces |-> <<"P", "-", "-", "-">>, ply |-> 0]

\* Board.push on the position: the piece leaves from_square, lands on (and
\* captures on) to_square, and the ply counter advances
ApplyMove(pos, m) ==
    [pieces |-> [pos.pieces EXCEPT ![m.to_square] = pos.pieces[m.from_square],
                                   ![m.from_square] = "-"],
     ply |-> pos.ply + 1]

NewBoard(root) == [none |-> FALSE, root |-> root, move_stack |-> <<>>]

\* self.board = None
NoBoard == [none |-> TRUE, root |-> StartingPosition, move_stack |-> <<>>]

Push(b, m) == [b EXCEPT !.move_stack = Append(b.move_stack, m)]

Pop(b) == [b EXCEPT !.move_stack = SubSeq(b.move_stack, 1, Len(b.move_stack) - 1)]

RECURSIVE ApplyAll(_, _)
ApplyAll(pos, ms) ==
    IF ms = <<>> THEN pos
    ELSE ApplyAll(ApplyMove(pos, Head(ms)), Tail(ms))

\* the position a board shows
BoardPosition(b) == ApplyAll(b.root, b.move_stack)

(***************************************************************************)
(* The PGN texts of the catalogue.  A PGN text is modelled by its tags and *)
(* its movetext; Blank is the empty text of a blank block.                 *)
(***************************************************************************)
\* the pawn walks 1 -> 3 -> 4 -> 1 ...
PawnWalk(i) == CASE i % 3 = 1 -> Move(1, 3)
                 [] i % 3 = 2 -> Move(3, 4)
                 [] OTHER     -> Move(4, 1)

\* the knight walks 2 -> 3 -> 4 -> 2 ...
KnightWalk(i) == CASE i % 3 = 1 -> Move(2, 3)
                   [] i % 3 = 2 -> Move(3, 4)
                   [] OTHER     -> Move(4, 2)

PgnA == [Link |-> "u1", White |-> "alice", Black |-> "bob", EndTime |-> 3,
         TimeControl |-> "600", FEN |-> "", blank |-> FALSE,
         moves |-> [i \in 1..MaxPlies |-> KnightWalk(i)]]

\* the same Link as PgnA, another move list
PgnA2 == [Link |-> "u1", White |-> "alice", Black |-> "bob", EndTime |-> 3,
          TimeControl |-> "600", FEN |-> "", blank |-> FALSE,
          moves |-> [i \in 1..(MaxPlies - 1) |-> PawnWalk(i)]]

\* a game from a set-up position
PgnB == [Link |-> "u2", White |-> "bob", Black |-> "alice", EndTime |-> 2,
         TimeControl |-> "180", FEN |-> "odds", blank |-> FALSE,
         moves |-> [i \in 1..MaxPlies |-> PawnWalk(i)]]

\* the empty text: no tags, no moves
PgnBlank == [Link |-> "", White |-> "", Black |-> "", EndTime |-> 0,
             TimeControl |-> "", FEN |-> "", blank |-> TRUE, moves |-> <<>>]

Pgns == {PgnA, PgnA2, PgnB, PgnBlank}

\* a game with rating tags; "" is a tag the text does not have
RatedPgn(link, white, black, end_time, time_control, white_elo, black_elo) ==
    [Link |-> link, White |-> white, Black |-> black, EndTime |-> end_time,
     TimeControl |-> time_control, FEN |-> "", blank |-> FALSE,
     moves |-> <<KnightWalk(1)>>, WhiteElo |-> white_elo,
     BlackElo |-> black_elo]

\* the rated games: names in several cases, a rating that is no number,
\* ratings and a time control that are missing, a game of other players
RatedPgns ==
    << RatedPgn("r1", "Alice", "bob", 11, "600", "1500", "1400"),
       RatedPgn("r2", "bob", "alice", 12, "180", "1400", "abc"),
       RatedPgn("r3", "Bob", "ALICE", 13, "", "", "1510"),
       RatedPgn("r4", "carol", "bob", 14, "600", "1520", "1400"),
       RatedPgn("r5", "alice", "Bob", 15, "180", "", "1400"),
       RatedPgn("r6", "alice", "bob", 10, "600", "1520", "1500") >>

\* chess.pgn.read_game(...).board(): the FEN header decides the root
GameBoard(pgn) ==
    NewBoard(IF pgn.FEN = "odds" THEN OddsPosition ELSE StartingPosition)

\* [n.move for n in game.mainline()]
Mainline(pgn) == pgn.moves

(***************************************************************************)
(* fetch_games.py: the parsed record of a block and the store.             *)
(***************************************************************************)
\* the dict parse_pgn_games appends for one block
ParseRecord(p) ==
    [url |-> p.Link, pgn |-> p, end_time |-> p.EndTime,
     time_control |-> p.TimeControl, white |-> p.White, black |-> p.Black]

ParsedRecords == {ParseRecord(p) : p \in Pgns}

\* the non-empty results of parse_pgn_games
Batches == UNION {[1..n -> ParsedRecords] : n \in 1..MaxBatch}

\* evaluation_data IS NULL
NullEval == <<>>

\* the row INSERT ... (url, pgn, end_time, white, black, time_control) adds
NewRow(g) ==
    [url |-> g.url, pgn |-> g.pgn, end_time |-> g.end_time, white |-> g.white,
     black |-> g.black, time_control |-> g.time_control,
     evaluation_data |-> NullEval]

\* INSERT OR REPLACE in the place of INSERT OR IGNORE
InsertOrReplace(table, g) ==
    [table |-> [u \in DOMAIN table \cup {g.url} |->
                   IF u = g.url THEN NewRow(g) ELSE table[u]],
     rowcount |-> 1]

\* one INSERT OR IGNORE: the table after it and cur.rowcount
InsertOrIgnore(table, g) ==
    IF g.url \in DOMAIN table
    THEN [table |-> table, rowcount |-> 0]
    ELSE [table |-> table @@ (g.url :> NewRow(g)), rowcount |-> 1]

\* the loop counting every record, whatever cur.rowcount says
RECURSIVE InsertAllCountingAll(_, _, _)
InsertAllCountingAll(table, games, new_count) ==
    IF games = <<>> THEN [table |-> table, new_count |-> new_count]
    ELSE InsertAllCountingAll(InsertOrIgnore(table, Head(games)).table,
                              Tail(games), new_count + 1)

\* the loop "for g in games" with its new_count
RECURSIVE InsertAll(_, _, _)
InsertAll(table, games, new_count) ==
    IF games = <<>> THEN [table |-> table, new_count |-> new_count]
    ELSE LET r == InsertOrIgnore(table, Head(games))
         IN InsertAll(r.table, Tail(games),
                      IF r.rowcount # 0 THEN new_count + 1 ELSE new_count)

\* REPLACE INTO games (url, evaluation_data): the other columns become NULL
UpdateEvaluationReplacingRow(table, url, data) ==
    IF url \in DOMAIN table
    THEN [table EXCEPT ![url] =
             [url |-> url, pgn |-> PgnBlank, end_time |-> 0, white |-> "",
              black |-> "", time_control |-> "", evaluation_data |-> <<data>>]]
    ELSE table

\* an UPDATE of scores and is_mate that keeps stored wdl_probs
UpdateEvaluationKeepingWdl(table, url, data) ==
    IF url \in DOMAIN table
    THEN [table EXCEPT ![url].evaluation_data =
             IF table[url].evaluation_data = NullEval THEN <<data>>
             ELSE <<[data EXCEPT !.wdl_probs =
                        table[url].evaluation_data[1].wdl_probs]>>]
    ELSE table

\* UPDATE games SET evaluation_data = ? WHERE url = ?
UpdateEvaluation(table, url, data) ==
    IF url \in DOMAIN table
    THEN [table EXCEPT ![url].evaluation_data = <<data>>]
    ELSE table

\* SELECT url, pgn, ... FROM games ORDER BY end_time DESC
RECURSIVE OrderByEndTimeDesc(_)
OrderByEndTimeDesc(rows) ==
    IF rows = {} THEN <<>>
    ELSE LET r == CHOOSE x \in rows : \A y \in rows : x.end_time >= y.end_time
         IN <<r>> \o OrderByEndTimeDesc(rows \ {r})

\* the (url, pgn) pairs load_game_list puts into self.games
LoadGames(table) ==
    LET rows == OrderByEndTimeDesc({table[u] : u \in DOMAIN table})
    IN [i \in 1..Len(rows) |-> [url |-> rows[i].url, pgn |-> rows[i].pgn]]

(***************************************************************************)
(* The state: the store, the viewer (GameViewer) and the evaluation runs.  *)
(***************************************************************************)
VARIABLES
    db,                 \* the games table of DB_FILE: url -> row
    db_columns,         \* the columns of that table, {} without a table
    db_files,           \* the database files of the other users
    archive,            \* the blocks the archive holds for the current month
    last_save,          \* what the last save-to-db call returned
    saves_of_archive,   \* successful saves of the archive as it is now (0, 1, 2)
    games,              \* self.games: the (url, pgn) pairs of the listbox
    selection,          \* listbox.curselection(): a row of games, 0 if none
    selected_game_url,  \* self.selected_game_url (<<>> is None)
    selected_game_pgn,  \* self.selected_game_pgn (<<>> is None)
    moves,              \* self.moves
    idx,                \* self.idx
    board,              \* self.board
    turn_slider,        \* self.turn_slider: its "to" and its value
    eval_history,       \* self.eval_history (<<>> is None)
    wdl_history,        \* self.wdl_history (<<>> is None)
    loading,            \* the loading frame of the plot area exists
    eval_status,        \* what the progress bar of the loading frame shows
    engine,             \* self.engine: "ok" or "None"
    eval_thread,        \* the evaluation threads: run -> its locals
    after_queue,        \* callbacks posted with self.after(0, ...)
    oracle_requests,    \* the callers whose engine.analyse has not returned
    messagebox,         \* the error dialogs shown so far
    last_op,            \* the replay handler that ran last, and its argument
    current_user,       \* self.current_user (USER)
    current_elo_plot_user,          \* self._current_elo_plot_user (<<>> is None)
    cached_processed_games_for_user, \* self._cached_processed_games_for_user
    elo_start_slider,   \* self.elo_start_slider: state, "to" and value
    elo_end_slider,     \* self.elo_end_slider: state, "to" and value
    time_control_vars,  \* self.time_control_vars: time control -> checked
    games_in_range,     \* the rating points plot_elo_history plotted last
    elo_moved,          \* the rating slider the user moved last, and the window before
    elo_scans,          \* the SELECTs of plot_elo_history so far, up to MaxScans
    elo_window,         \* the window and the filter games_in_range is computed for
    window_games,       \* <<>> or <<the games_in_range computed for elo_window>>
    schema_table,       \* the games table of a database file that is opened
    schema_opened,      \* who opened it last, and the table it found
    month_archives,     \* the archive's answer for each month of the player
    new_db,             \* create_new_database: its position and its locals
    new_db_file,        \* the games table committed to the file it writes
    raw_pgn_text,       \* the text handed to parse_pgn_games
    parsed_games,       \* what parse_pgn_games returned (<<>> before the call)
    info,               \* the reply of engine.analyse that is being recorded
    score_entry         \* the (score, is_mate) appended for it (<<>> before)

fileVars == <<db_columns, db_files>>
storeVars == <<db, archive, last_save, saves_of_archive, fileVars>>
listVars == <<games, selection>>
selectedVars == <<selected_game_url, selected_game_pgn>>
replayVars == <<moves, idx, board, turn_slider>>
plotVars == <<eval_history, wdl_history>>
loadingVars == <<loading, eval_status>>
\* the rating history view
eloVars == <<current_user, current_elo_plot_user,
             cached_processed_games_for_user, elo_start_slider,
             elo_end_slider, time_control_vars, games_in_range, elo_moved,
             elo_scans>>
\* the variables of the calls of the pure functions
schemaVars == <<schema_table, schema_opened>>
createVars == <<month_archives, new_db, new_db_file>>
callVars == <<raw_pgn_text, parsed_games, info, score_entry, elo_window,
              window_games, schemaVars, createVars>>
\* what the navigation handlers and the evaluation threads leave as it is
fixedVars == <<engine, eloVars, callVars>>
runVars == <<fixedVars, eval_thread, after_queue, oracle_requests, messagebox>>

\* the store, the viewer and its threads
coreVars ==
    <<db, fileVars, archive, last_save, saves_of_archive, games, selection,
      selected_game_url, selected_game_pgn, moves, idx, board, turn_slider,
      eval_history, wdl_history, loading, eval_status, engine, eval_thread,
      after_queue, oracle_requests, messagebox, last_op>>

viewerVars == <<coreVars, eloVars>>

vars == <<viewerVars, callVars>>

Runs == 1..MaxRuns

\* the requester id of the Tk main thread among the oracle's callers
MainThread == 0

\* the Tk main thread runs a handler only when it is not waiting in the
\* analyse call of show_top3_moves
MainThreadIdle == MainThread \notin oracle_requests

\* messagebox.showerror(title, ...); run: the evaluation run it reports, or 0
Dialog(title, run) == [title |-> title, run |-> run]

Op(name, arg) == [op |-> name, arg |-> arg]

(***************************************************************************)
(* The move replay engine.                                                 *)
(***************************************************************************)
\* the replay cursor as one value
Cursor(ms, i, b) == [moves |-> ms, idx |-> i, board |-> b]

\* "for i in range(target_idx): if i < len(self.moves): push(moves[i])"
RECURSIVE PushRange(_, _, _, _)
PushRange(b, ms, i, target_idx) ==
    IF i >= target_idx THEN b
    ELSE PushRange(IF i < Len(ms) THEN Push(b, ms[i + 1]) ELSE b,
                   ms, i + 1, target_idx)

\* the body of on_slider_change for an integer target
SliderChange(s, target_idx) ==
    IF target_idx # s.idx
    THEN [s EXCEPT !.board = PushRange(NewBoard(StartingPosition), s.moves,
                                       0, target_idx),
                   !.idx = target_idx]
    ELSE s

\* turn_slider.set(n): the scale invokes its command, on_slider_change
SliderSet(s, n) == SliderChange(s, n)

\* go_next without its guard on the index
NextCursorUnguarded(s) ==
    [s EXCEPT !.board = IF s.idx < Len(s.moves)
                        THEN Push(s.board, s.moves[s.idx + 1]) ELSE s.board,
              !.idx = s.idx + 1]

NextCursor(s) ==
    IF s.idx < Len(s.moves)
    THEN SliderSet([s EXCEPT !.board = Push(s.board, s.moves[s.idx + 1]),
                             !.idx = s.idx + 1], s.idx + 1)
    ELSE s

PrevCursor(s) ==
    IF s.idx > 0
    THEN SliderSet([s EXCEPT !.board = Pop(s.board), !.idx = s.idx - 1],
                   s.idx - 1)
    ELSE s

RECURSIVE StartCursor(_)
StartCursor(s) ==
    IF s.idx > 0
    THEN StartCursor([s EXCEPT !.board = Pop(s.board), !.idx = s.idx - 1])
    ELSE SliderSet(s, 0)

RECURSIVE EndCursor(_)
EndCursor(s) ==
    IF s.idx < Len(s.moves)
    THEN EndCursor([s EXCEPT !.board = Push(s.board, s.moves[s.idx + 1]),
                             !.idx = s.idx + 1])
    ELSE SliderSet(s, s.idx)

SetCursor(s) ==
    /\ moves' = s.moves
    /\ idx' = s.idx
    /\ board' = s.board

go_next ==
    /\ MainThreadIdle
    /\ SetCursor(NextCursor(Cursor(moves, idx, board)))
    /\ turn_slider' = IF idx < Len(moves)
                      THEN [turn_slider EXCEPT !.value = (idx + 1) * SliderUnit]
                      ELSE turn_slider
    /\ last_op' = Op("go_next", idx)
    /\ UNCHANGED <<storeVars, listVars, selectedVars, plotVars, loadingVars,
                   runVars>>

go_prev ==
    /\ MainThreadIdle
    /\ SetCursor(PrevCursor(Cursor(moves, idx, board)))
    /\ turn_slider' = IF idx > 0
                      THEN [turn_slider EXCEPT !.value = (idx - 1) * SliderUnit]
                      ELSE turn_slider
    /\ last_op' = Op("go_prev", idx)
    /\ UNCHANGED <<storeVars, listVars, selectedVars, plotVars, loadingVars,
                   runVars>>

go_start ==
    /\ MainThreadIdle
    /\ SetCursor(StartCursor(Cursor(moves, idx, board)))
    /\ turn_slider' = [turn_slider EXCEPT !.value = 0]
    /\ last_op' = Op("go_start", idx)
    /\ UNCHANGED <<storeVars, listVars, selectedVars, plotVars, loadingVars,
                   runVars>>

go_end ==
    /\ MainThreadIdle
    /\ SetCursor(EndCursor(Cursor(moves, idx, board)))
    /\ turn_slider' = [turn_slider EXCEPT !.value = idx' * SliderUnit]
    /\ last_op' = Op("go_end", idx)
    /\ UNCHANGED <<storeVars, listVars, selectedVars, plotVars, loadingVars,
                   runVars>>

\* the user drags the turn slider to value/SliderUnit;
\* target_idx = int(float(value))
on_slider_change(value) ==
    /\ MainThreadIdle
    /\ SetCursor(SliderChange(Cursor(moves, idx, board), value \div SliderUnit))
    /\ turn_slider' = [turn_slider EXCEPT !.value = value]
    /\ last_op' = Op("on_slider_change", value \div SliderUnit)
    /\ UNCHANGED <<storeVars, listVars, selectedVars, plotVars, loadingVars,
                   runVars>>

(***************************************************************************)
(* Game selection.                                                         *)
(***************************************************************************)
\* json.loads of the stored blob: (scores, is_mate) and wdl_probs
LoadedEvalHistory(data) ==
    IF data = NullEval THEN <<>>
    ELSE <<[scores |-> data[1].scores, is_mate |-> data[1].is_mate]>>

LoadedWdlHistory(data) ==
    IF data = NullEval THEN <<>> ELSE <<data[1].wdl_probs>>

\* SELECT evaluation_data FROM games WHERE url = ?
SelectEvaluation(table, url) ==
    IF url \in DOMAIN table THEN table[url].evaluation_data ELSE NullEval

(***************************************************************************)
(* fetch_current_month_games_and_save_to_db: the store part.               *)
(***************************************************************************)
\* (True, "Processed {len(games)} games; inserted {new_count} new records")
\* or (False, "Database error ...")
SaveResult(ok, processed, new_count) ==
    [ok |-> ok, processed |-> processed, new_count |-> new_count]

\* no call yet
NoSave == SaveResult(FALSE, 0, 0)

\* the archive answers with the blocks of the month; db_ok: no sqlite error.
\* Without the commit a failed call leaves the table as it was.
save_to_db(db_ok) ==
    LET r == InsertAll(db, archive, 0)
    IN /\ archive # <<>>
       /\ db' = IF db_ok THEN r.table ELSE db
       /\ last_save' = SaveResult(db_ok, Len(archive),
                                  IF db_ok THEN r.new_count ELSE 0)
       /\ saves_of_archive' = IF db_ok /\ saves_of_archive < 2
                              THEN saves_of_archive + 1 ELSE saves_of_archive
       /\ UNCHANGED <<archive, fileVars, listVars, selectedVars, replayVars, plotVars,
                      loadingVars, runVars, last_op>>

\* the store is not opened: not-found or an empty answer (ok), or a failed
\* request (not ok)
save_nothing(ok) ==
    /\ ok => archive = <<>>
    /\ last_save' = SaveResult(ok, 0, 0)
    /\ UNCHANGED <<db, fileVars, archive, saves_of_archive, listVars, selectedVars, replayVars, plotVars,
                   loadingVars, runVars, last_op>>

\* the service records one more finished game of the month
archive_grows(g) ==
    /\ Len(archive) < MaxBatch
    /\ archive' = Append(archive, g)
    /\ saves_of_archive' = 0
    /\ UNCHANGED <<db, fileVars, last_save, listVars, selectedVars, replayVars, plotVars,
                   loadingVars, runVars, last_op>>

(***************************************************************************)
(* The evaluation pipeline: show_evaluation_analysis starts a thread that  *)
(* runs run_evaluation_analysis; the Tk main loop runs the callbacks the   *)
(* thread posts.                                                           *)
(***************************************************************************)
\* the position of the game after ply moves
PositionAt(pgn, ply) ==
    BoardPosition(PushRange(GameBoard(pgn), Mainline(pgn), 0, ply))

\* the oracle: whether it reports a forced mate for a position
OracleIsMate(pos) == pos.pieces[4] # "-"

IdleThread ==
    [pc |-> "idle", url |-> "", pgn |-> PgnBlank, depth |-> 0,
     scores |-> <<>>, is_mate |-> <<>>, wdl_probs |-> <<>>]

\* a thread that ended: its locals are gone
EndedThread(t, how) == [IdleThread EXCEPT !.pc = how, !.url = t.url]

\* the starting position left out of the count
TotalPositionsWithoutStart(pgn) == Len(Mainline(pgn))

\* total_positions = 1 + len(list(game.mainline_moves()))
TotalPositions(pgn) == 1 + Len(Mainline(pgn))

\* the entry calculate_stockfish_scores appends for position ply of run r
ScoreEntry(r, ply) == [run |-> r, ply |-> ply]

\* the entry calculate_wdl_probabilities appends
WdlEntry(r, ply) == [run |-> r, ply |-> ply]

\* eval_data = {'scores': ..., 'is_mate': ..., 'wdl_probs': ..., 'depth': ...}
EvalData(t) ==
    [scores |-> t.scores, is_mate |-> t.is_mate, wdl_probs |-> t.wdl_probs,
     depth |-> t.depth]

ProgressCallback(r, current, total) ==
    [kind |-> "update_eval_progress", run |-> r, current |-> current,
     total |-> total, scores |-> <<>>, is_mate |-> <<>>, wdl_probs |-> <<>>]

ClearCallback(r, t) ==
    [kind |-> "clear_loading", run |-> r, current |-> 0, total |-> 0,
     scores |-> t.scores, is_mate |-> t.is_mate, wdl_probs |-> t.wdl_probs]

\* the user clicks "Run Analysis" and enters depth in the dialog
show_evaluation_analysis(r, depth) ==
    /\ MainThreadIdle
    /\ selection # 0
    /\ eval_thread[r].pc = "idle"
    /\ \A q \in Runs : q < r => eval_thread[q].pc # "idle"
    /\ loading' = TRUE
    /\ eval_status' = <<0, 0>>
    /\ eval_thread' = [eval_thread EXCEPT ![r] =
           [pc |-> "scores", url |-> games[selection].url,
            pgn |-> games[selection].pgn, depth |-> depth,
            scores |-> <<>>, is_mate |-> <<>>, wdl_probs |-> <<>>]]
    /\ UNCHANGED <<storeVars, listVars, selectedVars, replayVars, plotVars,
                   fixedVars, after_queue, oracle_requests, messagebox, last_op>>

\* run r can query the oracle: the engine was started and read_game gave a game
CanAnalyse(r) == engine = "ok" /\ ~eval_thread[r].pgn.blank

\* a thread calls self.engine.analyse(board, Limit(depth)): the request is
\* with the oracle until the call returns or raises
request_analyse(r) ==
    /\ eval_thread[r].pc \in {"scores", "wdl"}
    /\ CanAnalyse(r)
    /\ r \notin oracle_requests
    /\ oracle_requests' = oracle_requests \cup {r}
    /\ UNCHANGED <<storeVars, listVars, selectedVars, replayVars, plotVars,
                   loadingVars, fixedVars, eval_thread, after_queue, messagebox,
                   last_op>>

\* the progress reported with the index of the position, counted from 0
analyse_score_reporting_ply(r) ==
    LET t == eval_thread[r]
        current == Len(t.scores) + 1
        total == TotalPositions(t.pgn)
    IN /\ t.pc = "scores"
       /\ r \in oracle_requests
       /\ oracle_requests' = oracle_requests \ {r}
       /\ eval_thread' = [eval_thread EXCEPT ![r] =
              [t EXCEPT !.scores = Append(t.scores, ScoreEntry(r, current - 1)),
                        !.is_mate = Append(t.is_mate,
                            OracleIsMate(PositionAt(t.pgn, current - 1))),
                        !.pc = IF current = total THEN "wdl" ELSE "scores"]]
       /\ after_queue' = Append(after_queue,
                                ProgressCallback(r, current - 1, total))
       /\ UNCHANGED <<storeVars, listVars, selectedVars, replayVars, plotVars,
                      loadingVars, fixedVars, messagebox, last_op>>

\* one engine.analyse of calculate_stockfish_scores that returns
analyse_score(r) ==
    LET t == eval_thread[r]
        current == Len(t.scores) + 1
        total == TotalPositions(t.pgn)
    IN /\ t.pc = "scores"
       /\ r \in oracle_requests
       /\ oracle_requests' = oracle_requests \ {r}
       /\ eval_thread' = [eval_thread EXCEPT ![r] =
              [t EXCEPT !.scores = Append(t.scores, ScoreEntry(r, current - 1)),
                        !.is_mate = Append(t.is_mate,
                            OracleIsMate(PositionAt(t.pgn, current - 1))),
                        !.pc = IF current = total THEN "wdl" ELSE "scores"]]
       /\ after_queue' = Append(after_queue, ProgressCallback(r, current, total))
       /\ UNCHANGED <<storeVars, listVars, selectedVars, replayVars, plotVars,
                      loadingVars, fixedVars, messagebox, last_op>>

\* one engine.analyse of calculate_wdl_probabilities that returns
analyse_wdl(r) ==
    LET t == eval_thread[r]
        current == Len(t.wdl_probs) + 1
        total == TotalPositions(t.pgn)
    IN /\ t.pc = "wdl"
       /\ r \in oracle_requests
       /\ oracle_requests' = oracle_requests \ {r}
       /\ eval_thread' = [eval_thread EXCEPT ![r] =
              [t EXCEPT !.wdl_probs = Append(t.wdl_probs, WdlEntry(r, current - 1)),
                        !.pc = IF current = total THEN "store" ELSE "wdl"]]
       /\ UNCHANGED <<storeVars, listVars, selectedVars, replayVars, plotVars,
                      loadingVars, fixedVars, after_queue, messagebox, last_op>>

\* the exception caught, and what was computed so far stored
analysis_raises_and_stores(r) ==
    /\ eval_thread[r].pc \in {"scores", "wdl"}
    /\ db' = UpdateEvaluation(db, eval_thread[r].url, EvalData(eval_thread[r]))
    /\ eval_thread' = [eval_thread EXCEPT ![r] = EndedThread(eval_thread[r], "dead")]
    /\ oracle_requests' = oracle_requests \ {r}
    /\ UNCHANGED <<archive, last_save, saves_of_archive, fileVars, listVars,
                   selectedVars, replayVars, plotVars, loadingVars, fixedVars,
                   after_queue, messagebox, last_op>>

\* an exception leaves run_evaluation_analysis: the oracle raised, self.engine
\* is None, or read_game returned None; the thread ends
analysis_raises(r) ==
    /\ eval_thread[r].pc \in {"scores", "wdl"}
    /\ eval_thread' = [eval_thread EXCEPT ![r] = EndedThread(eval_thread[r], "dead")]
    /\ oracle_requests' = oracle_requests \ {r}
    /\ UNCHANGED <<storeVars, listVars, selectedVars, replayVars, plotVars,
                   loadingVars, fixedVars, after_queue, messagebox, last_op>>

\* the UPDATE of run_evaluation_analysis (db_ok: no sqlite error) and the
\* self.after(0, _clear_loading_widgets_and_update_plot, ...) that follows
store_evaluation(r, db_ok) ==
    LET t == eval_thread[r]
    IN /\ t.pc = "store"
       /\ db' = IF db_ok /\ "evaluation_data" \in db_columns
                THEN UpdateEvaluation(db, t.url, EvalData(t))
                ELSE db
       /\ after_queue' = Append(after_queue, ClearCallback(r, t))
       /\ eval_thread' = [eval_thread EXCEPT ![r] = EndedThread(t, "done")]
       /\ UNCHANGED <<archive, last_save, saves_of_archive, fileVars, listVars,
                      selectedVars, replayVars, plotVars, loadingVars, fixedVars,
                      oracle_requests, messagebox, last_op>>

\* the user clicks "Top 3 Moves": the main thread calls self.engine.analyse
\* and waits in it; without an engine the AttributeError becomes a dialog
show_top3_moves ==
    /\ MainThreadIdle
    /\ ~board.none
    /\ IF engine = "None"
       THEN /\ messagebox' = messagebox \cup {Dialog("Analysis Error", 0)}
            /\ UNCHANGED oracle_requests
       ELSE /\ oracle_requests' = oracle_requests \cup {MainThread}
            /\ UNCHANGED messagebox
    /\ UNCHANGED <<storeVars, listVars, selectedVars, replayVars, plotVars,
                   loadingVars, fixedVars, eval_thread, after_queue, last_op>>

\* the analyse call of show_top3_moves returns (the arrows are drawn) or
\* raises (a dialog is shown)
top3_returns(ok) ==
    /\ MainThread \in oracle_requests
    /\ oracle_requests' = oracle_requests \ {MainThread}
    /\ messagebox' = IF ok THEN messagebox
                     ELSE messagebox \cup {Dialog("Analysis Error", 0)}
    /\ UNCHANGED <<storeVars, listVars, selectedVars, replayVars, plotVars,
                   loadingVars, fixedVars, eval_thread, after_queue, last_op>>

\* the main loop runs the oldest posted callback
run_after ==
    /\ MainThreadIdle
    /\ after_queue # <<>>
    /\ LET cb == Head(after_queue)
       IN IF cb.kind = "update_eval_progress"
          THEN /\ eval_status' = IF loading THEN <<cb.current, cb.total>>
                                 ELSE eval_status
               /\ UNCHANGED <<loading, plotVars>>
          ELSE /\ loading' = FALSE
               /\ eval_history' = <<[scores |-> cb.scores,
                                     is_mate |-> cb.is_mate]>>
               /\ wdl_history' = <<cb.wdl_probs>>
               /\ UNCHANGED eval_status
    /\ after_queue' = Tail(after_queue)
    /\ UNCHANGED <<storeVars, listVars, selectedVars, replayVars, fixedVars,
                   eval_thread, oracle_requests, messagebox, last_op>>

(***************************************************************************)
(* parse_pgn_games on the text itself.  A text is a sequence of tokens: a  *)
(* newline, a blank, the six characters [Event, the rest of an Event tag,  *)
(* a whole tag [Name "value"], or a line of movetext.                      *)
(***************************************************************************)
Tok(kind, name, value) == [kind |-> kind, name |-> name, value |-> value]

NL == Tok("\n", "", "")
SP == Tok(" ", "", "")
\* the characters [Event
EventMarker == Tok("[Event", "", "")
\* the characters ' "value"]' that close an Event tag
EventRest(value) == Tok("rest", "Event", value)
\* [Name "value"]
Tag(name, value) == Tok("tag", name, value)
Movetext(value) == Tok("moves", "", value)

\* the separator of raw_pgn_text.split("\n\n[Event")
Separator == <<NL, NL, EventMarker>>

IsPrefix(pre, text) ==
    Len(pre) <= Len(text) /\ SubSeq(text, 1, Len(pre)) = pre

\* str.split(sep): the pieces between the occurrences of sep, left to right
RECURSIVE Split(_, _)
Split(text, blk) ==
    IF text = <<>> THEN <<blk>>
    ELSE IF IsPrefix(Separator, text)
         THEN <<blk>> \o Split(SubSeq(text, Len(Separator) + 1, Len(text)), <<>>)
         ELSE Split(Tail(text), Append(blk, Head(text)))

Whitespace == {NL, SP}

\* str.strip()
RECURSIVE Strip(_)
Strip(text) ==
    IF text = <<>> THEN text
    ELSE IF Head(text) \in Whitespace THEN Strip(Tail(text))
    ELSE IF text[Len(text)] \in Whitespace
         THEN Strip(SubSeq(text, 1, Len(text) - 1))
         ELSE text

\* re.findall(r'\[(\w+)\s+"([^"]*)"\]', pgn): the (name, value) pairs in order
RECURSIVE FindTags(_)
FindTags(pgn) ==
    IF pgn = <<>> THEN <<>>
    ELSE IF Head(pgn).kind = "tag"
         THEN <<Head(pgn)>> \o FindTags(Tail(pgn))
    ELSE IF /\ Head(pgn) = EventMarker
            /\ Len(pgn) >= 2
            /\ pgn[2].kind = "rest"
         THEN <<pgn[2]>> \o FindTags(SubSeq(pgn, 3, Len(pgn)))
         ELSE FindTags(Tail(pgn))

\* tags.get(name, ""): dict(...) keeps the last pair of a name; the result
\* is "" for a name without a pair (None is as falsy as "" where it is used)
TagsGet(pairs, name) ==
    LET hits == {i \in 1..Len(pairs) : pairs[i].name = name}
    IN IF hits = {} THEN ""
       ELSE pairs[CHOOSE i \in hits : \A j \in hits : j <= i].value

\* a or b or c on strings
Or3(a, b, c) == IF a # "" THEN a ELSE IF b # "" THEN b ELSE c

\* the dates and the times of day the texts use, as days since the epoch and
\* seconds since midnight
Dates == ("2024.01.01" :> 19723) @@ ("2024.01.02" :> 19724)
             @@ ("2024.01.03" :> 19725)

Times == ("01:00:00" :> 3600) @@ ("02:00:00" :> 7200) @@ ("03:00:00" :> 10800)

SecondsPerDay == 86400

\* int(datetime.strptime(f"{date} {time_str}", "%Y.%m.%d %H:%M:%S")
\*         .replace(tzinfo=timezone.utc).timestamp())
Timestamp(date, time_str) == Dates[date] * SecondsPerDay + Times[time_str]

\* try: ... except Exception: end_ts = 0
EndTs(date, time_str) ==
    IF date \in DOMAIN Dates /\ time_str \in DOMAIN Times
    THEN Timestamp(date, time_str)
    ELSE 0

\* the body of the loop of parse_pgn_games for block i (from 0) with text blk
ParseBlock(i, blk) ==
    LET pgn == Strip(IF i > 0 THEN <<EventMarker>> \o blk ELSE blk)
        tags == FindTags(pgn)
        date == Or3(TagsGet(tags, "EndDate"), TagsGet(tags, "UTCDate"),
                    TagsGet(tags, "Date"))
        time_str == Or3(TagsGet(tags, "EndTime"), TagsGet(tags, "UTCTime"),
                        TagsGet(tags, "StartTime"))
    IN [url |-> TagsGet(tags, "Link"),
        pgn |-> pgn,
        end_time |-> EndTs(date, time_str),
        time_control |-> TagsGet(tags, "TimeControl"),
        white |-> TagsGet(tags, "White"),
        black |-> TagsGet(tags, "Black")]

\* the loop leaving out the blocks whose timestamp failed to parse
ParseBlocksSkippingFailures(blocks) ==
    SelectSeq([i \in 1..Len(blocks) |-> ParseBlock(i - 1, blocks[i])],
              LAMBDA g : g.end_time # 0)

\* for i, blk in enumerate(blocks): games.append({...})
ParseBlocks(blocks) == [i \in 1..Len(blocks) |-> ParseBlock(i - 1, blocks[i])]

parse_pgn_games(raw) == ParseBlocks(Split(raw, <<>>))

\* a caller runs parse_pgn_games on the text
parse ==
    /\ parsed_games = <<>>
    /\ parsed_games' = <<parse_pgn_games(raw_pgn_text)>>
    /\ UNCHANGED <<viewerVars, raw_pgn_text, info, score_entry, elo_window,
                   window_games, schemaVars, createVars>>

(***************************************************************************)
(* chess.engine scores and the entry calculate_stockfish_scores records    *)
(* for a reply of the oracle.                                              *)
(***************************************************************************)
\* the mate_score handed to Score.score
MateScore == 10
\* a recorded score is kept in hundredths of a pawn: score() / 100
CentipawnsPerPawn == 100
\* the longest mate and the largest centipawn value of the replies
MaxMate == 12
MaxCp == 3

\* chess.engine.Cp(n), chess.engine.Mate(n) and chess.engine.MateGiven
Cp(n) == [kind |-> "cp", n |-> n]
Mate(n) == [kind |-> "mate", n |-> n]
MateGiven == [kind |-> "mate_given", n |-> 0]

\* Score.__neg__
Neg(sc) ==
    CASE sc.kind = "cp" -> Cp(-sc.n)
      [] sc.kind = "mate" -> IF sc.n = 0 THEN MateGiven ELSE Mate(-sc.n)
      [] OTHER -> Mate(0)

\* Score.is_mate()
IsMate(sc) == sc.kind # "cp"

\* Score.score(mate_score=...) of a mate score
MateScoreOf(sc, mate_score) ==
    CASE sc.kind = "mate_given" -> mate_score
      [] sc.n > 0 -> mate_score - sc.n
      [] OTHER -> -mate_score - sc.n

\* PovScore(relative, turn): the score from the side to move
PovScore(relative, turn) == [relative |-> relative, turn |-> turn]

\* PovScore.pov(color)
Pov(pov_score, color) ==
    IF pov_score.turn = color THEN pov_score.relative
    ELSE Neg(pov_score.relative)

\* what calculate_stockfish_scores appends to scores and is_mate for the
\* reply; the score is in hundredths of a pawn
RecordScore(reply) ==
    LET score_obj == Pov(reply.score, reply.pov)
    IN IF IsMate(score_obj)
       THEN [is_mate |-> TRUE,
             score |-> MateScoreOf(score_obj, MateScore) * CentipawnsPerPawn]
       ELSE [is_mate |-> FALSE, score |-> score_obj.n]

Colors == {"WHITE", "BLACK"}

\* the scores the oracle can report, from the side to move
RelativeScores ==
    {Cp(n) : n \in (-MaxCp)..MaxCp} \cup {Mate(n) : n \in (-MaxMate)..MaxMate}

\* the replies: the score, the side to move and the side of the tracked player
Replies ==
    {[score |-> PovScore(sc, turn), pov |-> color] :
        sc \in RelativeScores, turn \in Colors, color \in Colors}

\* the body of the loop of calculate_stockfish_scores for the reply
record_score ==
    /\ score_entry = <<>>
    /\ score_entry' = <<RecordScore(info)>>
    /\ UNCHANGED <<viewerVars, raw_pgn_text, parsed_games, info, elo_window,
                   window_games, schemaVars, createVars>>

(***************************************************************************)
(* The rating history: plot_elo_history and the handlers of its controls.  *)
(***************************************************************************)
\* str.lower() on the names of the catalogue
Lower(name) ==
    CASE name = "Alice" -> "alice"
      [] name = "ALICE" -> "alice"
      [] name = "Bob" -> "bob"
      [] OTHER -> name

\* the ratings of the catalogue: str.isdigit() holds for them and int() gives
\* the number
Ratings == ("1400" :> 1400) @@ ("1500" :> 1500) @@ ("1510" :> 1510)
               @@ ("1520" :> 1520)

\* re.search(r'\[WhiteElo\s+"([^"]+)"\]', pgn_text): the value, "" without a
\* match (a PGN of the archive catalogue has no rating tags)
EloTag(pgn, name) == IF name \in DOMAIN pgn THEN pgn[name] ELSE ""

\* SELECT end_time, pgn, white, black FROM games
\* WHERE LOWER(white) = ? OR LOWER(black) = ? ORDER BY end_time
RECURSIVE OrderByEndTime(_)
OrderByEndTime(rows) ==
    IF rows = {} THEN <<>>
    ELSE LET r == CHOOSE x \in rows : \A y \in rows : x.end_time <= y.end_time
         IN <<r>> \o OrderByEndTime(rows \ {r})

SelectGamesOf(table, username) ==
    OrderByEndTime({table[u] : u \in {v \in DOMAIN table :
        \/ Lower(table[v].white) = Lower(username)
        \/ Lower(table[v].black) = Lower(username)}})

\* the rating taken from the other side's tag
CurrentEloValueOfOpponent(row, username) ==
    LET white_elo == EloTag(row.pgn, "WhiteElo")
        black_elo == EloTag(row.pgn, "BlackElo")
    IN IF Lower(row.white) = Lower(username)
       THEN IF black_elo \in DOMAIN Ratings THEN <<Ratings[black_elo]>>
            ELSE <<>>
       ELSE IF white_elo \in DOMAIN Ratings THEN <<Ratings[white_elo]>>
            ELSE <<>>

\* current_elo_value of a row: the rating of the side username plays, <<>>
\* for None
CurrentEloValue(row, username) ==
    LET white_elo == EloTag(row.pgn, "WhiteElo")
        black_elo == EloTag(row.pgn, "BlackElo")
    IN IF Lower(row.white) = Lower(username)
       THEN IF white_elo \in DOMAIN Ratings THEN <<Ratings[white_elo]>>
            ELSE <<>>
       ELSE IF Lower(row.black) = Lower(username)
            THEN IF black_elo \in DOMAIN Ratings THEN <<Ratings[black_elo]>>
                 ELSE <<>>
            ELSE <<>>

\* tags.get("TimeControl", "Unknown")
TimeControlOf(pgn) ==
    IF pgn.TimeControl = "" THEN "Unknown" ELSE pgn.TimeControl

\* {'date': date, 'elo': current_elo_value, 'time_control': time_control};
\* the date is kept as the timestamp datetime.fromtimestamp was given
RatingPoint(row, elo) ==
    [date |-> row.end_time, elo |-> elo, time_control |-> TimeControlOf(row.pgn)]

\* the loop over the rows: fetched_games_data
RECURSIVE FetchedGamesData(_, _)
FetchedGamesData(rows, username) ==
    IF rows = <<>> THEN <<>>
    ELSE LET elo == CurrentEloValue(Head(rows), username)
         IN (IF elo # <<>> THEN <<RatingPoint(Head(rows), elo[1])>> ELSE <<>>)
            \o FetchedGamesData(Tail(rows), username)

\* sorted(fetched_games_data, key=lambda g: g['date']): a stable sort
RECURSIVE SortedByDate(_)
SortedByDate(points) ==
    IF points = <<>> THEN <<>>
    ELSE LET i == CHOOSE k \in 1..Len(points) :
                    /\ \A j \in 1..Len(points) : points[k].date <= points[j].date
                    /\ \A j \in 1..(k - 1) : points[j].date # points[k].date
         IN <<points[i]>> \o SortedByDate(SubSeq(points, 1, i - 1)
                                 \o SubSeq(points, i + 1, Len(points)))

\* Python's seq[i:j] for i >= 0; a negative j counts from the end
PySlice(seq, i, j) ==
    LET n == Len(seq)
        stop == IF j < 0 THEN (IF n + j < 0 THEN 0 ELSE n + j)
                ELSE (IF j > n THEN n ELSE j)
    IN SubSeq(seq, i + 1, stop)

Max(a, b) == IF a > b THEN a ELSE b

Min(a, b) == IF a < b THEN a ELSE b

\* self.time_control_vars.get(tc) and self.time_control_vars[tc].get()
Enabled(tc_vars, tc) == tc \in DOMAIN tc_vars /\ tc_vars[tc]

\* games_in_range of plot_elo_history for the slider values start_val and
\* end_val: the clamp of start, the slice and the time control filter
GamesInRange(processed_games, start_val, end_val, tc_vars) ==
    LET clamped == IF start_val > end_val THEN end_val ELSE start_val
        start_index == Max(0, clamped - 1)
        end_index == Min(Len(processed_games), end_val)
        unfiltered == PySlice(processed_games, start_index, end_index)
    IN SelectSeq(unfiltered, LAMBDA g : Enabled(tc_vars, g.time_control))

\* the window [start, end] over points with the time controls of tc_vars
Window(points, start_val, end_val, tc_vars) ==
    [points |-> points, start |-> start_val, end |-> end_val,
     tc_vars |-> tc_vars]

\* lines 824 to 837 of plot_elo_history on the window elo_window
select_games_in_range ==
    /\ window_games = <<>>
    /\ window_games' = <<GamesInRange(elo_window.points, elo_window.start,
                                      elo_window.end, elo_window.tc_vars)>>
    /\ UNCHANGED <<viewerVars, raw_pgn_text, parsed_games, info, score_entry,
                   elo_window, schemaVars, createVars>>

\* a ttk.Scale with from_ = 1
Scale(state, to, value) == [state |-> state, to |-> to, value |-> value]

\* ttk.Scale.set: ignored by a disabled scale, else the value limited to
\* from_..to
ScaleSet(scale, value) ==
    IF scale.state = "disabled" THEN scale
    ELSE [scale EXCEPT !.value = Max(1, Min(scale.to, value))]

\* self.time_control_vars = {}
NoTimeControls == [tc \in {} |-> TRUE]

\* the fields of the viewer plot_elo_history reads and writes
EloView(user, cache, start_slider, end_slider, tc_vars, plotted) ==
    [user |-> user, cache |-> cache, start_slider |-> start_slider,
     end_slider |-> end_slider, tc_vars |-> tc_vars, plotted |-> plotted]

\* the rating view before the first plot_elo_history of __init__
BlankEloView ==
    EloView(<<>>, <<>>, Scale("normal", 1, 1), Scale("normal", 1, 1),
            NoTimeControls, <<>>)

\* plot_elo_history(username, ...) on the rating view v.  The commands the
\* set() calls invoke (on_elo_range_change, which plots again from the cache)
\* find start <= end and leave the view as this call leaves it.
PlotEloHistory(table, username, v) ==
    LET same_user == v.user = <<username>>
        tc_vars0 == IF same_user THEN v.tc_vars ELSE NoTimeControls
        use_cache == same_user /\ v.cache # <<>>
        fetched == FetchedGamesData(SelectGamesOf(table, username), username)
    IN IF ~use_cache /\ fetched = <<>>
       THEN \* no rows, or no row with a rating
            EloView(<<username>>, <<>>, Scale("disabled", 1, 1),
                    Scale("disabled", 1, 1), NoTimeControls, <<>>)
       ELSE LET processed_games ==
                    IF use_cache THEN v.cache ELSE SortedByDate(fetched)
                reset == ~same_user \/ ~use_cache
                num_total_games == Len(processed_games)
                all_time_controls ==
                    {processed_games[i].time_control : i \in 1..num_total_games}
                tc_vars == [tc \in all_time_controls |->
                               IF tc \in DOMAIN tc_vars0 THEN tc_vars0[tc]
                               ELSE TRUE]
                start1 == Scale("normal", num_total_games, v.start_slider.value)
                end1 == Scale("normal", num_total_games, v.end_slider.value)
                start2 == IF reset THEN ScaleSet(start1, 1) ELSE start1
                end2 == IF reset THEN ScaleSet(end1, num_total_games) ELSE end1
                start3 == IF start2.value > end2.value
                          THEN ScaleSet(start2, end2.value) ELSE start2
            IN EloView(<<username>>, processed_games, start3, end2, tc_vars,
                       GamesInRange(processed_games, start2.value, end2.value,
                                    tc_vars))

\* the rating view the viewer holds
CurrentEloView ==
    EloView(current_elo_plot_user, cached_processed_games_for_user,
            elo_start_slider, elo_end_slider, time_control_vars,
            games_in_range)

\* the viewer holds the rating view v
SetEloView(v) ==
    /\ current_elo_plot_user' = v.user
    /\ cached_processed_games_for_user' = v.cache
    /\ elo_start_slider' = v.start_slider
    /\ elo_end_slider' = v.end_slider
    /\ time_control_vars' = v.tc_vars
    /\ games_in_range' = v.plotted

\* the SELECTs of plot_elo_history that are counted
MaxScans == 2

\* plot_elo_history(username, ...) on the view v runs its SELECT: the cache
\* is of another user, or empty
Scans(username, v) == ~(v.user = <<username>> /\ v.cache # <<>>)

\* the SELECT counted
CountScan(n, username, v) ==
    IF Scans(username, v) /\ n < MaxScans THEN n + 1 ELSE n

\* a handler calls plot_elo_history(username, ...) with the view v
Replot(username, v) ==
    /\ SetEloView(PlotEloHistory(db, username, v))
    /\ elo_scans' = CountScan(elo_scans, username, v)

\* the rating slider the user moved, and the window before the move
Moved(slider, start_val, end_val) ==
    [slider |-> slider, start |-> start_val, end |-> end_val]

\* on_elo_range_change after the sliders took the values of v: the ordering
\* of the bounds, then plot_elo_history
OnEloRangeChange(v) ==
    LET start_val == v.start_slider.value
        end_val == v.end_slider.value
        ordered == IF start_val > end_val
                   THEN [v EXCEPT !.end_slider = ScaleSet(v.end_slider, start_val)]
                   ELSE v
    IN IF v.cache = <<>> \/ v.user = <<>>
       THEN \* num_points == 0: return; or no user to plot for
            /\ SetEloView(IF v.cache = <<>> THEN v ELSE ordered)
            /\ UNCHANGED elo_scans
       ELSE Replot(v.user[1], ordered)

\* the user drags the start slider to value: Tk stores the value and calls
\* the command, on_elo_range_change
move_elo_start_slider(value) ==
    /\ MainThreadIdle
    /\ elo_start_slider.state = "normal"
    /\ value \in 1..elo_start_slider.to
    /\ value # elo_start_slider.value
    /\ OnEloRangeChange([CurrentEloView EXCEPT !.start_slider.value = value])
    /\ elo_moved' = Moved("start", elo_start_slider.value, elo_end_slider.value)
    /\ UNCHANGED <<current_user, coreVars, callVars>>

\* the user drags the end slider to value
move_elo_end_slider(value) ==
    /\ MainThreadIdle
    /\ elo_end_slider.state = "normal"
    /\ value \in 1..elo_end_slider.to
    /\ value # elo_end_slider.value
    /\ OnEloRangeChange([CurrentEloView EXCEPT !.end_slider.value = value])
    /\ elo_moved' = Moved("end", elo_start_slider.value, elo_end_slider.value)
    /\ UNCHANGED <<current_user, coreVars, callVars>>

\* the user clicks the checkbox of tc: the BooleanVar flips and
\* _on_time_control_filter_change plots again
toggle_time_control(tc) ==
    /\ MainThreadIdle
    /\ tc \in DOMAIN time_control_vars
    /\ current_elo_plot_user # <<>>
    /\ Replot(current_elo_plot_user[1],
              [CurrentEloView EXCEPT !.tc_vars[tc] = ~time_control_vars[tc]])
    /\ elo_moved' = Moved("none", elo_start_slider.value, elo_end_slider.value)
    /\ UNCHANGED <<current_user, coreVars, callVars>>

\* on_game_select with row i of the list gs selected, on the games table
\* (columns, table) of DB_FILE, the rating view v of the user and n scans so
\* far.  Without the column evaluation_data the SELECT raises
\* sqlite3.OperationalError and the handler ends there.
SelectGame(gs, i, columns, table, user, v, n) ==
    LET url == gs[i].url
        pgn == gs[i].pgn
        data == SelectEvaluation(table, url)
        raises == "evaluation_data" \notin columns
    IN /\ selection' = i
       /\ selected_game_pgn' = <<pgn>>
       /\ selected_game_url' = <<url>>
       /\ IF raises
          THEN UNCHANGED plotVars
          ELSE /\ eval_history' = LoadedEvalHistory(data)
               /\ wdl_history' = LoadedWdlHistory(data)
       /\ IF raises \/ pgn.blank
          THEN \* read_game returns None: game_obj.mainline() raises
               UNCHANGED replayVars
          ELSE /\ moves' = Mainline(pgn)
               /\ board' = SliderSet(Cursor(Mainline(pgn), 0, GameBoard(pgn)),
                                     0).board
               /\ idx' = 0
               /\ turn_slider' = [to |-> Len(Mainline(pgn)), value |-> 0]
       /\ IF raises \/ pgn.blank
          THEN SetEloView(v) /\ elo_scans' = n
          ELSE \* the view is "player": plot_elo_history(self.current_user)
               /\ SetEloView(PlotEloHistory(table, user, v))
               /\ elo_scans' = CountScan(n, user, v)

\* the user clicks row i of the listbox
on_game_select(i) ==
    /\ MainThreadIdle
    /\ SelectGame(games, i, db_columns, db, current_user, CurrentEloView,
                  elo_scans)
    /\ last_op' = Op("on_game_select", i)
    /\ UNCHANGED <<storeVars, games, loadingVars, engine, callVars,
                   eval_thread, after_queue, oracle_requests, messagebox,
                   current_user, elo_moved>>

(***************************************************************************)
(* The settings dialog and the switch of the tracked user.                 *)
(***************************************************************************)
\* a database file: the columns of its games table ({} without a table)
\* and its rows
DbFile(columns, table) == [columns |-> columns, table |-> table]

\* a file that does not exist, or sqlite3.connect has just created
NoFile == DbFile({}, [u \in {} |-> 0])

\* the file of username (DB_FILE of load_settings) after the file of the
\* tracked user was left
FileOf(username) ==
    IF username = current_user THEN DbFile(db_columns, db)
    ELSE db_files[username]

\* the files of the others when DB_FILE is the file of username
OtherFiles(username) ==
    [u \in DOMAIN db_files |->
        IF u = username THEN NoFile
        ELSE IF u = current_user THEN DbFile(db_columns, db)
        ELSE db_files[u]]

\* the settings dialog was closed with username in settings.json; saved is
\* dialog.saved_settings.  show_settings loads the settings and, when
\* DB_FILE changed or the settings were saved, reloads the game list,
\* empties the rating cache, plots the rating history and selects the first
\* game.  load_game_list raises sqlite3.OperationalError on a file without
\* a games table, after it has emptied the list.
show_settings(username, saved) ==
    LET file == FileOf(username)
        gs == LoadGames(file.table)
        cleared == [CurrentEloView EXCEPT !.cache = <<>>,
                                          !.tc_vars = NoTimeControls]
        plotted == PlotEloHistory(file.table, username, cleared)
        scans == CountScan(elo_scans, username, cleared)
    IN /\ MainThreadIdle
       /\ current_user' = username
       /\ db' = file.table
       /\ db_columns' = file.columns
       /\ db_files' = OtherFiles(username)
       /\ last_op' = Op("show_settings", <<current_user, username>>)
       /\ IF username = current_user /\ ~saved
          THEN UNCHANGED <<listVars, selectedVars, replayVars, plotVars,
                           current_elo_plot_user,
                           cached_processed_games_for_user, elo_start_slider,
                           elo_end_slider, time_control_vars, games_in_range,
                           elo_scans>>
          ELSE IF file.columns = {}
          THEN /\ games' = <<>>
               /\ selection' = 0
               /\ UNCHANGED <<selectedVars, replayVars, plotVars,
                              current_elo_plot_user,
                              cached_processed_games_for_user,
                              elo_start_slider, elo_end_slider,
                              time_control_vars, games_in_range, elo_scans>>
          ELSE /\ games' = gs
               /\ IF gs # <<>>
                  THEN SelectGame(gs, 1, file.columns, file.table, username,
                                  plotted, scans)
                  ELSE /\ selection' = 0
                       /\ eval_history' = <<>>
                       /\ wdl_history' = <<>>
                       /\ SetEloView(plotted)
                       /\ elo_scans' = scans
                       /\ UNCHANGED <<selectedVars, replayVars>>
       /\ UNCHANGED <<archive, last_save, saves_of_archive, loadingVars,
                      engine, callVars, eval_thread, after_queue,
                      oracle_requests, messagebox, elo_moved>>

(***************************************************************************)
(* The schema of the games table and the code that opens a database file:  *)
(* ensure_db, the check of GameViewer.__init__ and the CREATE TABLE of the *)
(* settings dialog.  A table is its set of columns and its rows, a row a   *)
(* function from the columns to values.                                    *)
(***************************************************************************)
\* a NULL
Null == "NULL"

GamesTable(columns, rows) == [columns |-> columns, rows |-> rows]

\* the file has no games table
NoTable == GamesTable({}, [u \in {} |-> 0])

\* CREATE TABLE IF NOT EXISTS games (...) of ensure_db
BaseColumns == {"url", "pgn", "end_time", "white", "black"}

\* CREATE TABLE IF NOT EXISTS games (...) of create_new_database
SettingsColumns ==
    {"url", "pgn", "white", "black", "end_time", "cheating_analysis",
     "evaluation_data"}

\* the columns the store is expected to have after it was opened
ExpectedColumns == {"time_control", "evaluation_data"}

\* CREATE TABLE IF NOT EXISTS games (columns)
CreateTableIfNotExists(table, columns) ==
    IF table.columns = {} THEN GamesTable(columns, table.rows) ELSE table

\* ALTER TABLE games ADD COLUMN column: the rows read NULL in it
AddColumn(table, column) ==
    GamesTable(table.columns \cup {column},
               [u \in DOMAIN table.rows |->
                   [c \in table.columns \cup {column} |->
                       IF c \in table.columns THEN table.rows[u][c] ELSE Null]])

\* ensure_db(conn)
EnsureDb(table) ==
    LET created == CreateTableIfNotExists(table, BaseColumns)
    IN IF "time_control" \notin created.columns
       THEN AddColumn(created, "time_control")
       ELSE created

\* the schema check of GameViewer.__init__: without a games table the ALTER
\* raises sqlite3.OperationalError, which is caught and printed
ViewerSchemaCheck(table) ==
    IF table.columns = {} THEN table
    ELSE IF "evaluation_data" \notin table.columns
         THEN AddColumn(table, "evaluation_data")
         ELSE table

\* the CREATE TABLE IF NOT EXISTS of create_new_database
SettingsCreateTable(table) == CreateTableIfNotExists(table, SettingsColumns)

\* the file opened by one of the three
Opened(by, table) ==
    CASE by = "ensure_db" -> EnsureDb(table)
      [] by = "GameViewer" -> ViewerSchemaCheck(table)
      [] by = "create_new_database" -> SettingsCreateTable(table)

Openers == {"ensure_db", "GameViewer", "create_new_database"}

\* by opens the file
open_database(by) ==
    /\ schema_opened' = [by |-> by, found |-> schema_table]
    /\ schema_table' = Opened(by, schema_table)
    /\ UNCHANGED <<viewerVars, raw_pgn_text, parsed_games, info, score_entry,
                   elo_window, window_games, createVars>>

(***************************************************************************)
(* The texts handed to parse_pgn_games.                                    *)
(***************************************************************************)
\* number of chunks (games, blank lines, junk) of the longest text
MaxChunks == 3

\* a game of the archive: its tag section, an empty line and its movetext
GameText(n) ==
    <<EventMarker, EventRest("Live"), NL,
      Tag("Link", IF n = 1 THEN "u1" ELSE "u2"), NL,
      Tag("White", "alice"), NL,
      Tag("EndDate", "2024.01.03"), NL,
      Tag("EndTime", IF n = 1 THEN "01:00:00" ELSE "02:00:00"), NL,
      NL,
      Movetext(IF n = 1 THEN "1. e4 e5 *" ELSE "1. d4 d5 *")>>

\* text that is no game: no tag in it
Junk == <<Movetext("junk")>>

Chunks == {GameText(1) \o <<NL>>, GameText(2) \o <<NL>>, <<NL>>, <<SP>>,
           Junk \o <<NL>>}

RECURSIVE Concat(_)
Concat(chunks) == IF chunks = <<>> THEN <<>>
                  ELSE Head(chunks) \o Concat(Tail(chunks))

\* games, empty lines and junk in any order
ChunkTexts ==
    {Concat(cs) : cs \in UNION {[1..n -> Chunks] : n \in 0..MaxChunks}}

\* the tags parse_pgn_games reads the timestamp from, in the order of the
\* pairs (EndDate, EndTime), (UTCDate, UTCTime), (Date, StartTime)
DateTags == <<"EndDate", "UTCDate", "Date">>
TimeTags == <<"EndTime", "UTCTime", "StartTime">>
StampTags == DateTags \o TimeTags

\* what a text gives a tag: no tag, a value of its own, or a malformed value
TagChoices == {"absent", "valid", "bad"}

ValidValue == [EndDate |-> "2024.01.03", UTCDate |-> "2024.01.02",
               Date |-> "2024.01.01", EndTime |-> "03:00:00",
               UTCTime |-> "02:00:00", StartTime |-> "01:00:00"]

RECURSIVE StampLines(_, _)
StampLines(choice, i) ==
    IF i > Len(StampTags) THEN <<>>
    ELSE LET name == StampTags[i]
         IN (CASE choice[i] = "absent" -> <<>>
               [] choice[i] = "valid" -> <<Tag(name, ValidValue[name]), NL>>
               [] OTHER -> <<Tag(name, "??"), NL>>)
            \o StampLines(choice, i + 1)

\* a game with the chosen date and time tags, an empty line, and the second
\* game of the archive
StampText(choice) ==
    <<EventMarker, EventRest("Live"), NL, Tag("Link", "u1"), NL>>
        \o StampLines(choice, 1)
        \o <<NL, Movetext("1. e4 e5 *"), NL, NL>>
        \o GameText(2) \o <<NL>>

StampTexts == {StampText(c) : c \in [1..Len(StampTags) -> TagChoices]}

RawTexts == ChunkTexts \cup StampTexts

(***************************************************************************)
(* The initial state: the store as the initial fetch left it, and the      *)
(* viewer after GameViewer.__init__.                                       *)
(***************************************************************************)
EmptyTable == [u \in {} |-> 0]

\* the tables earlier fetches can have left in DB_FILE; GameViewer() is not
\* constructed when on_game_select raises on the first row of the list
InitTables ==
    {t \in {InsertAll(EmptyTable, b, 0).table : b \in Batches \cup {<<>>}} :
        LoadGames(t) = <<>> \/ ~LoadGames(t)[1].pgn.blank}

\* the batch of the rated games chosen by keep
RECURSIVE RatedBatch(_, _)
RatedBatch(k, keep) ==
    IF k > Len(RatedPgns) THEN <<>>
    ELSE (IF k \in keep THEN <<ParseRecord(RatedPgns[k])>> ELSE <<>>)
         \o RatedBatch(k + 1, keep)

\* the tables that hold rated games
RatedTables ==
    {InsertAll(EmptyTable, RatedBatch(1, keep), 0).table :
        keep \in SUBSET (1..Len(RatedPgns))}

\* USER of config.py, as the settings have it
Usernames == {"Alice", "bob"}

DefaultUser == "alice"

\* self.plot_elo_history(self.current_user, ...) of __init__
EloInit ==
    LET v == PlotEloHistory(db, current_user, BlankEloView)
    IN /\ current_elo_plot_user = v.user
       /\ cached_processed_games_for_user = v.cache
       /\ elo_start_slider = v.start_slider
       /\ elo_end_slider = v.end_slider
       /\ time_control_vars = v.tc_vars
       /\ games_in_range = v.plotted
       /\ elo_moved = Moved("none", 1, 1)
       /\ elo_scans = CountScan(0, current_user, BlankEloView)

\* the columns of the games table after ensure_db and GameViewer.__init__
\* have opened the file
OpenedColumns == ViewerSchemaCheck(EnsureDb(NoTable)).columns

\* the users settings.json can name
SettingsUsers == {"Alice", "bob", "carol"}

\* the viewer has had one user and one file
OneFile ==
    /\ db_columns = OpenedColumns
    /\ db_files = [u \in SettingsUsers |-> NoFile]

ViewerInitOn(tables) ==
    /\ archive = <<>>
    /\ db \in tables
    /\ last_save = NoSave
    /\ saves_of_archive = 0
    /\ engine \in {"ok", "None"}
    /\ messagebox = IF engine = "None" THEN {Dialog("Stockfish Error", 0)}
                    ELSE {}
    /\ games = LoadGames(db)
    /\ eval_history = <<>>
    /\ wdl_history = <<>>
    /\ loading = FALSE
    /\ eval_status = <<0, 0>>
    /\ eval_thread = [r \in Runs |-> IdleThread]
    /\ after_queue = <<>>
    /\ oracle_requests = {}
    /\ IF games # <<>>
       THEN \* self.listbox.selection_set(0); self.on_game_select(None)
            /\ selection = 1
            /\ selected_game_url = <<games[1].url>>
            /\ selected_game_pgn = <<games[1].pgn>>
            /\ moves = Mainline(games[1].pgn)
            /\ idx = 0
            /\ board = GameBoard(games[1].pgn)
            /\ turn_slider = [to |-> Len(moves), value |-> 0]
       ELSE /\ selection = 0
            /\ selected_game_url = <<>>
            /\ selected_game_pgn = <<>>
            /\ moves = <<>> /\ idx = 0 /\ board = NoBoard
            /\ turn_slider = [to |-> 0, value |-> 0]
    /\ last_op = Op("init", 0)
    /\ EloInit

ViewerInit ==
    current_user = DefaultUser /\ OneFile /\ ViewerInitOn(InitTables)

\* parse_pgn_games is not called
NoParseCall ==
    /\ raw_pgn_text = <<>>
    /\ parsed_games = <<>>

\* no reply of the oracle is being recorded
NoScoreCall ==
    /\ info = [score |-> PovScore(Cp(0), "WHITE"), pov |-> "WHITE"]
    /\ score_entry = <<>>

\* no window is being selected
NoWindowCall ==
    /\ elo_window = Window(<<>>, 1, 1, NoTimeControls)
    /\ window_games = <<>>

(***************************************************************************)
(* SettingsDialog.create_new_database: the months from the start date to   *)
(* the end date are fetched from the archive one after the other and their *)
(* games inserted; the connection is committed after the loop.             *)
(***************************************************************************)
MonthsPerYear == 12

Period(month, year) == [month |-> month, year |-> year]

\* re.match(r'^(0[1-9]|1[0-2])/(\d{4})$', date)
MatchesDatePattern(date) == date.month \in 1..MonthsPerYear

\* the answers of the archive: the text of a month, a not-found condition
\* (HTTP 404) or another HTTP error
Answer(status, text) == [status |-> status, text |-> text]

\* fetch_month_pgn raises: resp.raise_for_status()
Raises(answer) == answer.status # "ok"

\* the row INSERT OR IGNORE INTO games (url, pgn, white, black, end_time)
\* makes of a game in a table with the given columns
InsertedRow(columns, game) ==
    [c \in columns |->
        CASE c = "url" -> game.url
          [] c = "pgn" -> game.pgn
          [] c = "white" -> game.white
          [] c = "black" -> game.black
          [] c = "end_time" -> game.end_time
          [] OTHER -> Null]

\* INSERT OR IGNORE of game
InsertOrIgnoreRow(table, game) ==
    IF game.url \in DOMAIN table.rows THEN table
    ELSE GamesTable(table.columns,
                    [u \in DOMAIN table.rows \cup {game.url} |->
                        IF u = game.url THEN InsertedRow(table.columns, game)
                        ELSE table.rows[u]])

\* for game in games: cur.execute(INSERT OR IGNORE ...)
RECURSIVE InsertGames(_, _)
InsertGames(table, gs) ==
    IF gs = <<>> THEN table
    ELSE InsertGames(InsertOrIgnoreRow(table, Head(gs)), Tail(gs))

\* the dialog before "Create Database" is clicked
NewDbIdle ==
    [pc |-> "idle", status |-> "", start |-> Period(0, 0), end |-> Period(0, 0),
     current_month |-> 0, current_year |-> 0, total_months |-> 0,
     months_processed |-> 0, total_games |-> 0, fetched |-> <<>>,
     table |-> NoTable]

\* the validation of create_new_database fails: a status line, and return
Rejected(start, end, text) ==
    [NewDbIdle EXCEPT !.pc = "rejected", !.status = text,
                      !.start = start, !.end = end]

\* "Create Database": the inputs are validated, the table is created and the
\* counters are initialised
create_new_database(username, start, end) ==
    /\ new_db.pc = "idle"
    /\ IF username = ""
       THEN new_db' = Rejected(start, end, "Please enter a username")
                      /\ UNCHANGED new_db_file
       ELSE IF ~MatchesDatePattern(start)
       THEN new_db' = Rejected(start, end, "Start date must be in MM/YYYY format")
                      /\ UNCHANGED new_db_file
       ELSE IF ~MatchesDatePattern(end)
       THEN new_db' = Rejected(start, end, "End date must be in MM/YYYY format")
                      /\ UNCHANGED new_db_file
       ELSE IF \/ end.year < start.year
               \/ (end.year = start.year /\ end.month < start.month)
       THEN new_db' = Rejected(start, end, "End date must be after start date")
                      /\ UNCHANGED new_db_file
       ELSE /\ new_db_file' = SettingsCreateTable(new_db_file)
            /\ new_db' =
                 [NewDbIdle EXCEPT
                    !.pc = "loop", !.status = "Fetching",
                    !.start = start, !.end = end,
                    !.current_month = start.month,
                    !.current_year = start.year,
                    !.total_months =
                        (end.year - start.year) * MonthsPerYear
                          + (end.month - start.month + 1),
                    !.table = SettingsCreateTable(new_db_file)]
    /\ UNCHANGED <<viewerVars, raw_pgn_text, parsed_games, info, score_entry,
                   elo_window, window_games, schemaVars, month_archives>>

\* while (current_year < end_year) or (current_year == end_year and
\* current_month <= end_month)
MonthsRemain(nd) ==
    \/ nd.current_year < nd.end.year
    \/ (nd.current_year = nd.end.year /\ nd.current_month <= nd.end.month)

\* one pass of the loop: the month is fetched, parsed and inserted and the
\* counters advance; an exception of fetch_month_pgn ends the handler in its
\* except clause, the connection is never committed
fetch_next_month ==
    /\ new_db.pc = "loop"
    /\ MonthsRemain(new_db)
    /\ LET current == Period(new_db.current_month, new_db.current_year)
           answer == month_archives[current]
           gs == parse_pgn_games(answer.text)
           rolls == new_db.current_month + 1 > MonthsPerYear
       IN new_db' =
            IF Raises(answer)
            THEN [new_db EXCEPT !.pc = "failed", !.status = "Error",
                                !.fetched = Append(@, current)]
            ELSE [new_db EXCEPT
                    !.fetched = Append(@, current),
                    !.table = IF gs # <<>> THEN InsertGames(@, gs) ELSE @,
                    !.total_games = IF gs # <<>> THEN @ + Len(gs) ELSE @,
                    !.months_processed = @ + 1,
                    !.current_month = IF rolls THEN 1 ELSE @ + 1,
                    !.current_year = IF rolls THEN @ + 1 ELSE @]
    /\ UNCHANGED <<viewerVars, raw_pgn_text, parsed_games, info, score_entry,
                   elo_window, window_games, schemaVars, month_archives,
                   new_db_file>>

\* after the loop: conn.commit(), conn.close() and the green status line
commit_new_database ==
    /\ new_db.pc = "loop"
    /\ ~MonthsRemain(new_db)
    /\ new_db_file' = new_db.table
    /\ new_db' = [new_db EXCEPT !.pc = "done", !.status = "Successfully created"]
    /\ UNCHANGED <<viewerVars, raw_pgn_text, parsed_games, info, score_entry,
                   elo_window, window_games, schemaVars, month_archives>>

\* the months around a turn of the year
ArchiveMonths == {Period(11, 2023), Period(12, 2023), Period(1, 2024)}

\* what is typed into the date fields: these months and a date with a month
\* that does not exist
InputDates == ArchiveMonths \cup {Period(13, 2023)}

\* what the archive can answer for a month
Answers ==
    {Answer("ok", <<>>), Answer("ok", GameText(1)), Answer("ok", GameText(2)),
     Answer("not_found", <<>>), Answer("error", <<>>)}

\* the file before the dialog writes it: absent, or a store with game 1
FilesBefore == {NoTable, InsertGames(GamesTable(SettingsColumns, NoTable.rows),
                                     parse_pgn_games(GameText(1)))}

\* create_new_database is not running
NoCreateCall ==
    /\ month_archives = [p \in {} |-> 0]
    /\ new_db = NewDbIdle
    /\ new_db_file = NoTable

\* no database file is being opened
NoSchemaCall ==
    /\ schema_table = NoTable
    /\ schema_opened = [by |-> "none", found |-> NoTable]

\* no call of a pure function is under way
NoCall ==
    NoParseCall /\ NoScoreCall /\ NoWindowCall /\ NoSchemaCall /\ NoCreateCall

\* a viewer without games, for the calls of the pure functions
IdleViewer == ViewerInit /\ db = EmptyTable /\ engine = "ok"

Init == ViewerInit /\ NoCall

(***************************************************************************)
(* The specifications.                                                     *)
(***************************************************************************)
Select == \E i \in 1..Len(games) : on_game_select(i)

SliderDrag == \E value \in 0..(turn_slider.to * SliderUnit) : on_slider_change(value)

Save == \E db_ok \in BOOLEAN : save_to_db(db_ok)

SaveNothing == \E ok \in BOOLEAN : save_nothing(ok)

Grow == \E g \in ParsedRecords : archive_grows(g)

StartRun == \E r \in Runs : show_evaluation_analysis(r, DefaultDepth)

Request == \E r \in Runs : request_analyse(r)

AnalyseScore == \E r \in Runs : analyse_score(r)

AnalyseWdl == \E r \in Runs : analyse_wdl(r)

\* the first run of the session
StartFirstRun == show_evaluation_analysis(1, DefaultDepth)

Raise == \E r \in Runs : analysis_raises(r)

Store == \E r \in Runs, db_ok \in BOOLEAN : store_evaluation(r, db_ok)

\* the replay engine alone
NextReplay ==
    \/ Select
    \/ go_next
    \/ go_prev
    \/ go_start
    \/ go_end
    \/ SliderDrag

SpecReplay == Init /\ [][NextReplay]_vars

\* the evaluation runs and the readers of the store
NextEval ==
    \/ Select
    \/ StartRun
    \/ Request
    \/ AnalyseScore
    \/ AnalyseWdl
    \/ Raise
    \/ Store
    \/ run_after

SpecEval == Init /\ [][NextEval]_vars

\* the store with its writers (the fetches and one evaluation run) and its
\* readers
NextStore ==
    \/ Select
    \/ Save
    \/ SaveNothing
    \/ Grow
    \/ StartFirstRun
    \/ Request
    \/ AnalyseScore
    \/ AnalyseWdl
    \/ Raise
    \/ Store
    \/ run_after

SpecStore == Init /\ [][NextStore]_vars

Top3Returns == \E ok \in BOOLEAN : top3_returns(ok)

\* the callers of the oracle: the evaluation threads and show_top3_moves
NextOracle ==
    \/ StartRun
    \/ show_top3_moves
    \/ run_after
    \/ Top3Returns
    \/ Request
    \/ AnalyseScore
    \/ AnalyseWdl
    \/ Raise
    \/ Store

SpecOracle == Init /\ [][NextOracle]_vars

\* parse_pgn_games on the texts
InitParse ==
    /\ IdleViewer
    /\ raw_pgn_text \in RawTexts
    /\ parsed_games = <<>>
    /\ NoScoreCall
    /\ NoWindowCall
    /\ NoSchemaCall
    /\ NoCreateCall

NextParse == parse

SpecParse == InitParse /\ [][NextParse]_vars

\* calculate_stockfish_scores on the replies of the oracle
InitScore ==
    /\ IdleViewer
    /\ NoParseCall
    /\ NoWindowCall
    /\ NoSchemaCall
    /\ NoCreateCall
    /\ info \in Replies
    /\ score_entry = <<>>

NextScore == record_score

SpecScore == InitScore /\ [][NextScore]_vars

\* the scheduling of the evaluation runs: the Tk main loop runs every posted
\* callback, and a started thread runs until it returns or an exception ends it
FairEval ==
    /\ WF_vars(run_after)
    /\ \A r \in Runs :
          WF_vars(\/ request_analyse(r)
                  \/ analyse_score(r)
                  \/ analyse_wdl(r)
                  \/ analysis_raises(r)
                  \/ \E db_ok \in BOOLEAN : store_evaluation(r, db_ok))

SpecEvalFair == SpecEval /\ FairEval

\* the rating history of a store of rated games, with its sliders and its
\* time control checkboxes
InitRating ==
    /\ current_user \in Usernames
    /\ OneFile
    /\ ViewerInitOn(RatedTables)
    /\ engine = "ok"
    /\ NoCall

MoveStart == \E value \in 1..Len(RatedPgns) : move_elo_start_slider(value)

MoveEnd == \E value \in 1..Len(RatedPgns) : move_elo_end_slider(value)

Toggle == \E tc \in DOMAIN time_control_vars : toggle_time_control(tc)

NextRating == MoveStart \/ MoveEnd \/ Toggle \/ Select

SpecRating == InitRating /\ [][NextRating]_vars

\* the rating sequences the windows are taken from: sorted by date, with
\* the time controls of the rated games
MaxPoints == 3

WindowSlack == 2

TimeControls == {"600", "180"}

RECURSIVE PointsOfLength(_)
PointsOfLength(n) ==
    IF n = 0 THEN {<<>>}
    ELSE {Append(points, [date |-> n, elo |-> 1500 + n, time_control |-> tc]) :
             points \in PointsOfLength(n - 1), tc \in TimeControls}

RatingSequences == UNION {PointsOfLength(n) : n \in 0..MaxPoints}

\* the windows a caller can ask for, inside and outside 1..M
Windows ==
    {Window(points, start_val, end_val, tc_vars) :
        points \in RatingSequences,
        start_val \in (0 - WindowSlack)..(MaxPoints + WindowSlack),
        end_val \in (0 - WindowSlack)..(MaxPoints + WindowSlack),
        tc_vars \in [TimeControls -> BOOLEAN]}

InitWindow ==
    /\ IdleViewer
    /\ NoParseCall
    /\ NoScoreCall
    /\ NoSchemaCall
    /\ NoCreateCall
    /\ elo_window \in Windows
    /\ window_games = <<>>

NextWindow == select_games_in_range

SpecWindow == InitWindow /\ [][NextWindow]_vars

\* the tables a database file can hold when it is opened: none, or a table
\* one of the three made, with some rows
SchemaUrls == {"u1", "u2", "u3"}

ColumnSets ==
    {BaseColumns, BaseColumns \cup {"time_control"},
     BaseColumns \cup {"evaluation_data"},
     BaseColumns \cup ExpectedColumns, SettingsColumns}

\* the value row url holds in column c
CellValue(url, c) ==
    IF c \in {"time_control", "evaluation_data", "cheating_analysis"}
    THEN Null ELSE c

Tables ==
    {NoTable} \cup
    {GamesTable(columns, [u \in urls |-> [c \in columns |-> CellValue(u, c)]]) :
        columns \in ColumnSets, urls \in SUBSET SchemaUrls}

InitSchema ==
    /\ IdleViewer
    /\ NoParseCall
    /\ NoScoreCall
    /\ NoWindowCall
    /\ NoCreateCall
    /\ schema_table \in Tables
    /\ schema_opened = [by |-> "none", found |-> NoTable]

NextSchema == \E by \in Openers : open_database(by)

SpecSchema == InitSchema /\ [][NextSchema]_vars

\* the store of the rated games chosen by keep
RatedTable(keep) == InsertAll(EmptyTable, RatedBatch(1, keep), 0).table

\* the files the users can have: none, a store without games, a store
\* fetch_current_month_games_and_save_to_db made and no viewer has opened,
\* and a store a viewer has opened
SettingsFiles ==
    {NoFile, DbFile(OpenedColumns, EmptyTable),
     DbFile(EnsureDb(NoTable).columns, RatedTable({3})),
     DbFile(OpenedColumns, RatedTable({4, 5}))}

\* the viewer of one user with games, and the files of the others
InitSettings ==
    /\ current_user = "Alice"
    /\ db_columns = OpenedColumns
    /\ db_files \in {f \in [SettingsUsers -> SettingsFiles] :
                        f[current_user] = NoFile}
    /\ ViewerInitOn({RatedTable({1, 2})})
    /\ engine = "ok"
    /\ NoCall

ShowSettings ==
    \E username \in SettingsUsers, saved \in BOOLEAN :
        show_settings(username, saved)

NextSettings ==
    \/ ShowSettings
    \/ Select
    \/ go_next
    \/ StartFirstRun
    \/ Request
    \/ AnalyseScore
    \/ AnalyseWdl
    \/ Raise
    \/ Store
    \/ run_after

SpecSettings == InitSettings /\ [][NextSettings]_vars

InitCreate ==
    /\ IdleViewer
    /\ NoParseCall
    /\ NoScoreCall
    /\ NoWindowCall
    /\ NoSchemaCall
    /\ month_archives \in [ArchiveMonths -> Answers]
    /\ new_db = NewDbIdle
    /\ new_db_file \in FilesBefore

NextCreate ==
    \/ \E username \in {"", "bob"}, start \in InputDates, end \in InputDates :
           create_new_database(username, start, end)
    \/ fetch_next_month
    \/ commit_new_database

SpecCreate == InitCreate /\ [][NextCreate]_vars

Next ==
    \/ NextSettings
    \/ NextCreate
    \/ NextSchema
    \/ NextWindow
    \/ NextReplay \/ NextEval \/ NextStore \/ NextOracle \/ NextParse
    \/ NextScore \/ NextRating

Spec == Init /\ [][Next]_vars

(***************************************************************************)
(* The move replay engine: claims C1 to C3, under SpecReplay.              *)
(***************************************************************************)
\* the position the replay board must show: the initial position of the
\* game with the first i moves applied
ReplayedPosition(pgn, ms, i) == ApplyAll(GameBoard(pgn).root, SubSeq(ms, 1, i))

\* C1: after any sequence of game selection, next, prev, go-to-start,
\* go-to-end and slider jumps, the replay board equals the selected game's
\* initial position (with the set-up of its PGN) with moves[0..index) applied.
C1_BoardIsReplayOfMoves ==
    (selected_game_pgn # <<>> /\ ~board.none) =>
        BoardPosition(board) = ReplayedPosition(selected_game_pgn[1], moves, idx)

RECURSIVE NextTimes(_, _)
NextTimes(s, k) == IF k = 0 THEN s ELSE NextTimes(NextCursor(s), k - 1)

\* the replay state right after the selection of the game
FreshCursor(pgn) == Cursor(Mainline(pgn), 0, GameBoard(pgn))

\* C2: a slider jump to k, from any reachable replay state, yields the index
\* and the position that k calls of next yield from the freshly selected game.
C2_JumpEqualsNextTimes ==
    [][(last_op'.op = "on_slider_change" /\ selected_game_pgn # <<>>
        /\ ~selected_game_pgn[1].blank) =>
          LET s == NextTimes(FreshCursor(selected_game_pgn[1]), last_op'.arg)
          IN /\ idx' = s.idx
             /\ BoardPosition(board') = BoardPosition(s.board)]_vars

\* C3: the index stays in [0, N] with N = len(moves); next at index N and
\* prev at index 0 leave index, board and moves as they are, and they change
\* the index by one otherwise.
C3_IndexWithinMoves ==
    /\ [](idx \in 0..Len(moves))
    /\ [][/\ last_op'.op = "go_next" =>
                IF idx < Len(moves)
                THEN idx' = idx + 1 /\ moves' = moves
                ELSE idx' = idx /\ board' = board /\ moves' = moves
          /\ last_op'.op = "go_prev" =>
                IF idx > 0
                THEN idx' = idx - 1 /\ moves' = moves
                ELSE idx' = idx /\ board' = board /\ moves' = moves]_vars

\* next was called at the last index of a game with moves, and prev at 0
C3_Witness ==
    /\ last_op.op = "go_next"
    /\ moves # <<>>
    /\ last_op.arg = Len(moves)
    /\ idx = Len(moves)

(***************************************************************************)
(* The game store: claims C4 to C6, under SpecStore.                       *)
(***************************************************************************)
ArchiveUrls == {archive[i].url : i \in 1..Len(archive)}

\* the first record of the archive with the url
FirstWithUrl(u) ==
    archive[CHOOSE i \in 1..Len(archive) :
                /\ archive[i].url = u
                /\ \A j \in 1..(i - 1) : archive[j].url # u]

\* C4: a second upsert of an identical record set leaves the store as it is
\* (with the evaluationData written since the first call) and reports zero
\* new insertions.
C4_SecondUpsertIsNoOp ==
    [][(save_to_db(TRUE) /\ saves_of_archive >= 1) =>
          (last_save'.new_count = 0 /\ db' = db)]_vars

\* the record set was saved twice, and a record of it carries evaluation data
C4_Witness ==
    /\ saves_of_archive = 2
    /\ last_save = SaveResult(TRUE, Len(archive), 0)
    /\ \E u \in ArchiveUrls : u \in DOMAIN db /\ db[u].evaluation_data # NullEval

\* C5: upsert is insert-if-absent by url: a record whose url is stored, or
\* came earlier in the batch, is ignored, the first-inserted record is kept,
\* and the reported count is the number of rows newly added.
C5_InsertIfAbsentByUrl ==
    [][save_to_db(TRUE) =>
          LET added == DOMAIN db' \ DOMAIN db
          IN /\ \A u \in DOMAIN db : u \in DOMAIN db' /\ db'[u] = db[u]
             /\ added = ArchiveUrls \ DOMAIN db
             /\ \A u \in added : db'[u] = NewRow(FirstWithUrl(u))
             /\ last_save'.new_count = Cardinality(added)]_vars

\* a batch of two different records with one url was saved: one row was added
\* and it is the first record
C5_Witness ==
    /\ Len(archive) = 2
    /\ archive[1].url = archive[2].url
    /\ archive[1] # archive[2]
    /\ last_save = SaveResult(TRUE, 2, 1)
    /\ db[archive[1].url].pgn = archive[1].pgn

StoredUrls == {u \in DOMAIN db : db[u].evaluation_data # NullEval}

StoredEval(u) == db[u].evaluation_data[1]

\* C7: each persisted evaluationData of a game with N plies has
\* len(scores) = len(isMate) = len(wdlProbs) = N + 1.
C7_StoredEvalCoversEveryPly ==
    \A u \in StoredUrls :
        LET n == Len(Mainline(db[u].pgn))
        IN /\ Len(StoredEval(u).scores) = n + 1
           /\ Len(StoredEval(u).is_mate) = n + 1
           /\ Len(StoredEval(u).wdl_probs) = n + 1

\* the evaluation of a game of MaxPlies plies is stored
C7_Witness ==
    \E u \in StoredUrls :
        /\ Len(Mainline(db[u].pgn)) = MaxPlies
        /\ Len(StoredEval(u).scores) = MaxPlies + 1

\* the runs that contributed an entry to the blob
RunsOf(data) ==
    {data.scores[i].run : i \in 1..Len(data.scores)}
        \cup {data.wdl_probs[i].run : i \in 1..Len(data.wdl_probs)}

\* a callback of run r waits in the queue of the main loop
Pending(r) == \E i \in 1..Len(after_queue) : after_queue[i].run = r

\* C8: a run in which the oracle was unavailable or failed writes nothing:
\* the step that fails leaves the store as it is, and no stored
\* evaluationData holds anything of a failed run.
C8_FailedRunWritesNothing ==
    /\ [](\A r \in Runs : eval_thread[r].pc = "dead" =>
              \A u \in StoredUrls : r \notin RunsOf(StoredEval(u)))
    /\ [][\A r \in Runs :
             (eval_thread[r].pc # "dead" /\ eval_thread'[r].pc = "dead")
                 => db' = db]_vars

\* a run failed after the oracle had answered for a position of it, while
\* the evaluation of another run is stored
C8_Witness ==
    \E r \in Runs :
        /\ eval_thread[r].pc = "dead"
        /\ engine = "ok"
        /\ \E i \in 1..Len(after_queue) :
              /\ after_queue[i].run = r
              /\ after_queue[i].kind = "update_eval_progress"
        /\ eval_thread[r].url \in StoredUrls

\* the caller has seen the end of run r: its result was shown in the place of
\* the loading state, or an error dialog reported its failure
Signalled(r) ==
    \/ eval_thread[r].pc = "done" /\ ~Pending(r)
    \/ \E m \in messagebox : m.run = r

\* C9: every started evaluation run eventually delivers a completion or a
\* failure signal to the caller.
C9_StartedRunIsSignalled ==
    \A r \in Runs : (eval_thread[r].pc # "idle") ~> Signalled(r)

\* the entries of one run, one for each position in order
CompleteBlobOf(r, scores, wdl_probs) ==
    /\ Len(scores) = Len(wdl_probs)
    /\ \A i \in 1..Len(scores) : scores[i] = ScoreEntry(r, i - 1)
    /\ \A i \in 1..Len(wdl_probs) : wdl_probs[i] = WdlEntry(r, i - 1)

\* C10: under any interleaving of evaluation runs with readers, what a reader
\* finds as the evaluationData of a record (in the store, and loaded into the
\* viewer) is the complete blob of one run, never a mixture of two runs.
C10_ReaderSeesOneRunsBlob ==
    /\ \A u \in StoredUrls :
          /\ \E r \in Runs : CompleteBlobOf(r, StoredEval(u).scores,
                                            StoredEval(u).wdl_probs)
          /\ Len(StoredEval(u).scores) = TotalPositions(db[u].pgn)
    /\ (eval_history # <<>> /\ wdl_history # <<>>) =>
          \E r \in Runs : CompleteBlobOf(r, eval_history[1].scores,
                                         wdl_history[1])

\* the blob of run 2 is stored and loaded by a reader while run 1, started
\* before it for the same url, has not yet written
C10_Witness ==
    \E u \in StoredUrls :
        /\ RunsOf(StoredEval(u)) = {2}
        /\ eval_thread[1].pc = "store"
        /\ eval_thread[1].url = u
        /\ selected_game_url = <<u>>
        /\ eval_history # <<>>
        /\ RunsOf([scores |-> eval_history[1].scores,
                   wdl_probs |-> wdl_history[1]]) = {2}

(***************************************************************************)
(* The oracle: claim C11, under SpecOracle.                                *)
(***************************************************************************)
\* C11: the oracle is used by one conversation at a time: no request is sent
\* while another request is outstanding, so at most one caller is ever inside
\* engine.analyse.
C11_OneOracleRequestAtATime ==
    Cardinality(oracle_requests) <= 1

(***************************************************************************)
(* The parser: claims C12 to C15, under SpecParse.                         *)
(***************************************************************************)
\* the well-formed game blocks of a text, in order: each runs from an Event
\* tag to the movetext that follows its tag section
RECURSIVE GameBlocks(_, _)
GameBlocks(text, cur) ==
    IF text = <<>> THEN <<>>
    ELSE IF Head(text) = EventMarker
         THEN GameBlocks(Tail(text), <<EventMarker>>)
    ELSE IF cur = <<>> THEN GameBlocks(Tail(text), cur)
    ELSE IF Head(text).kind = "moves"
         THEN <<Append(cur, Head(text))>> \o GameBlocks(Tail(text), <<>>)
         ELSE GameBlocks(Tail(text), Append(cur, Head(text)))

\* blk occurs verbatim in pgn
Contains(pgn, blk) ==
    \E i \in 1..(Len(pgn) - Len(blk) + 1) :
        SubSeq(pgn, i, i + Len(blk) - 1) = blk

\* the number of games that start in pgn
EventCount(pgn) == Cardinality({i \in 1..Len(pgn) : pgn[i] = EventMarker})

\* the text holds games and white space only
OnlyGames(text) == \A i \in 1..Len(text) : text[i] \notin {Junk[1]}

\* C12: for a raw text of k well-formed game blocks parse returns exactly k
\* records in source order, and the pgn of each record holds its own game
\* verbatim and no text of another game.
C12_OneRecordPerGameBlock ==
    (parsed_games # <<>> /\ OnlyGames(raw_pgn_text)) =>
        LET blocks == GameBlocks(raw_pgn_text, <<>>)
            records == parsed_games[1]
        IN /\ Len(records) = Len(blocks)
           /\ \A i \in 1..Len(blocks) :
                 /\ Contains(records[i].pgn, blocks[i])
                 /\ EventCount(records[i].pgn) = 1

\* C13: parse emits no record for a blank or whitespace-only block, and
\* empty or whitespace-only input yields zero records.
C13_NoRecordForBlankBlock ==
    parsed_games # <<>> =>
        /\ \A i \in 1..Len(parsed_games[1]) : parsed_games[1][i].pgn # <<>>
        /\ Strip(raw_pgn_text) = <<>> => parsed_games[1] = <<>>

\* the date tag and the time tag of pair p are there and well-formed
PairValid(tags, p) ==
    /\ TagsGet(tags, DateTags[p]) \in DOMAIN Dates
    /\ TagsGet(tags, TimeTags[p]) \in DOMAIN Times

PairTimestamp(tags, p) ==
    Timestamp(TagsGet(tags, DateTags[p]), TagsGet(tags, TimeTags[p]))

\* C14: endTime is computed from the first available pair among
\* (EndDate, EndTime), (UTCDate, UTCTime), (Date, StartTime): the date and
\* the time come from the same pair, never from a mix of two pairs.
C14_DateAndTimeFromOnePair ==
    parsed_games # <<>> =>
        \A i \in 1..Len(parsed_games[1]) :
            LET rec == parsed_games[1][i]
                tags == FindTags(rec.pgn)
            IN rec.end_time # 0 =>
                  \E p \in 1..Len(DateTags) :
                      /\ PairValid(tags, p)
                      /\ rec.end_time = PairTimestamp(tags, p)
                      /\ \A q \in 1..(p - 1) : ~PairValid(tags, q)

\* the first of the names that has a non-empty tag gives its value
FirstPresent(tags, names) ==
    LET present == {i \in 1..Len(names) : TagsGet(tags, names[i]) # ""}
    IN IF present = {} THEN ""
       ELSE TagsGet(tags, names[CHOOSE i \in present :
                                    \A j \in present : i <= j])

\* the timestamp of the block cannot be parsed: the date or the time is
\* missing or malformed
Unparsable(tags) ==
    \/ FirstPresent(tags, DateTags) \notin DOMAIN Dates
    \/ FirstPresent(tags, TimeTags) \notin DOMAIN Times

HasTag(tags, name) == \E i \in 1..Len(tags) : tags[i].name = name

TrackedScore == Pov(info.score, info.pov)

\* the tracked player's side mates
TrackedSideMates ==
    TrackedScore.kind = "mate_given"
        \/ (TrackedScore.kind = "mate" /\ TrackedScore.n > 0)

Abs(n) == IF n < 0 THEN -n ELSE n

\* C16: for every position where the oracle reports a forced mate, at any
\* distance, the entry has isMate = true and a score that is positive when
\* the tracked player's side mates and negative when it is being mated, with
\* the saturated mate magnitude.
C16_MateScoreSaturatedAndSigned ==
    (score_entry # <<>> /\ IsMate(TrackedScore)) =>
        /\ score_entry[1].is_mate
        /\ IF TrackedSideMates THEN score_entry[1].score > 0
           ELSE score_entry[1].score < 0
        /\ Abs(score_entry[1].score) = MateScore * CentipawnsPerPawn

(***************************************************************************)
(* The rating history: claims C17 to C20.                                  *)
(***************************************************************************)
\* the rating tag of the side player has in row, "" when player has no side
SideEloTag(row, player) ==
    IF Lower(row.white) = Lower(player) THEN "WhiteElo"
    ELSE IF Lower(row.black) = Lower(player) THEN "BlackElo"
    ELSE ""

\* the stored games of player whose tag of player's side is a number
RatedRows(table, player) ==
    {row \in {table[u] : u \in DOMAIN table} :
        /\ SideEloTag(row, player) # ""
        /\ EloTag(row.pgn, SideEloTag(row, player)) \in DOMAIN Ratings}

\* the points of the history that stand for row
PointsOf(points, row, player) ==
    {i \in 1..Len(points) :
        /\ points[i].date = row.end_time
        /\ points[i].elo = Ratings[EloTag(row.pgn, SideEloTag(row, player))]}

\* C17: the rating history of the plotted player has exactly one point for
\* every stored game in which the player is white or black, compared without
\* case, and the rating tag of that side is present and numeric, with the
\* value of that tag as rating; the other games give no point.
C17_OnePointPerRatedGame ==
    current_elo_plot_user # <<>> =>
        LET player == current_elo_plot_user[1]
            points == cached_processed_games_for_user
            rows == RatedRows(db, player)
        IN /\ Len(points) = Cardinality(rows)
           /\ \A row \in rows : Cardinality(PointsOf(points, row, player)) = 1

\* the history of Alice over all the rated games, after a slider was moved:
\* three points, two games of hers without a point
C17_Witness ==
    /\ current_elo_plot_user = <<"Alice">>
    /\ Cardinality(DOMAIN db) = Len(RatedPgns)
    /\ Len(cached_processed_games_for_user) = 3
    /\ Cardinality({u \in DOMAIN db : SideEloTag(db[u], "Alice") # ""}) = 5
    /\ elo_moved.slider = "start"

\* every time control of the window's points is enabled
AllEnabled(w) ==
    \A i \in 1..Len(w.points) : Enabled(w.tc_vars, w.points[i].time_control)

RECURSIVE PointsAt(_, _, _)
PointsAt(points, positions, i) ==
    IF i > Len(points) THEN <<>>
    ELSE (IF i \in positions THEN <<points[i]>> ELSE <<>>)
         \o PointsAt(points, positions, i + 1)

C20_BoundsOrderedAndUnmovedKept ==
    /\ elo_start_slider.value <= elo_end_slider.value
    /\ elo_moved.slider = "start" => elo_end_slider.value = elo_moved.end
    /\ elo_moved.slider = "end" => elo_start_slider.value = elo_moved.start

(***************************************************************************)
(* Selection and replay state: claim C23, under SpecReplay.                *)
(***************************************************************************)
\* C23: selecting a game creates a fresh replay state, with index 0, the
\* board at that game's starting position and the moves of that game's
\* mainline; between two selections the move list never changes, whatever
\* navigation is done.
C23_SelectionCreatesFreshReplayState ==
    /\ [](last_op.op = "on_game_select" =>
            /\ idx = 0
            /\ moves = Mainline(games[selection].pgn)
            /\ board = GameBoard(games[selection].pgn))
    /\ [][last_op'.op # "on_game_select" => moves' = moves]_vars

(***************************************************************************)
(* The evaluation runs and their caller: claims C24, C25 and C28.          *)
(***************************************************************************)
\* run r posts its completion (_clear_loading_widgets_and_update_plot) in
\* this step
ReportsCompletion(r) ==
    /\ eval_thread[r].pc = "store"
    /\ eval_thread'[r].pc = "done"
    /\ Len(after_queue') = Len(after_queue) + 1
    /\ after_queue'[Len(after_queue')] = ClearCallback(r, eval_thread[r])

\* C24: a run that is reported to its caller as completed has written its
\* result into evaluation_data of the run's record, in the one write of the
\* run; a run whose write failed is not presented as completed.
C24_CompletedRunHasPersisted ==
    [][\A r \in Runs :
          ReportsCompletion(r) =>
              /\ eval_thread[r].url \in DOMAIN db'
              /\ db'[eval_thread[r].url].evaluation_data
                     = <<EvalData(eval_thread[r])>>
              /\ db'[eval_thread[r].url].evaluation_data
                     # db[eval_thread[r].url].evaluation_data]_vars

\* run r posts a progress notification in this step
PostsProgress(r) ==
    /\ Len(after_queue') = Len(after_queue) + 1
    /\ after_queue'[Len(after_queue')].kind = "update_eval_progress"
    /\ after_queue'[Len(after_queue')].run = r

\* C25: during a run on a game of N plies the progress notifications are
\* (current, total) with total = N + 1 and current = 1, 2, ..., N + 1, each
\* once and in increasing order, each after the oracle's answer for that
\* position: the k-th answer of the scores pass posts (k, N + 1), nothing
\* else posts progress, and the pass ends with N + 1 answers.
C25_ProgressCountsPositions ==
    /\ [][\A r \in Runs :
            LET t == eval_thread[r]
                N == Len(Mainline(t.pgn))
            IN /\ PostsProgress(r) =>
                     /\ t.pc = "scores"
                     /\ r \in oracle_requests /\ r \notin oracle_requests'
                     /\ Len(eval_thread'[r].scores) = Len(t.scores) + 1
                     /\ after_queue'[Len(after_queue')].current
                            = Len(t.scores) + 1
                     /\ after_queue'[Len(after_queue')].total = N + 1
                     /\ Len(t.scores) + 1 <= N + 1
               /\ Len(eval_thread'[r].scores) > Len(t.scores) =>
                     PostsProgress(r)]_vars
    /\ [](\A r \in Runs :
            eval_thread[r].pc \in {"wdl", "store"} =>
                Len(eval_thread[r].scores)
                    = Len(Mainline(eval_thread[r].pgn)) + 1)

\* the scores pass of a run on a game with moves has just reported its last
\* position
C25_Witness ==
    \E r \in Runs :
        /\ eval_thread[r].pc = "wdl"
        /\ Len(Mainline(eval_thread[r].pgn)) >= 1
        /\ after_queue # <<>>
        /\ after_queue[Len(after_queue)]
               = ProgressCallback(r, Len(Mainline(eval_thread[r].pgn)) + 1,
                                  Len(Mainline(eval_thread[r].pgn)) + 1)

(***************************************************************************)
(* The cache of the rating history: claim C26, under SpecRating, where     *)
(* neither the tracked player nor the store changes after __init__.        *)
(***************************************************************************)
\* C26: once the rating sequence of the player has been computed, moving a
\* bound of the window or toggling a time control never makes
\* plot_elo_history scan the store again, and no scan happens while the
\* tracked player and the contents of the store are what they were.
C26_NoRescanWithoutChange ==
    [][(db' = db /\ current_user' = current_user) => elo_scans' = elo_scans]_vars

\* the record the evaluation in history was computed for: the record of the
\* run that made its first entry
EvaluatedUrl(history) == eval_thread[history.scores[1].run].url

\* C28: the evaluation the viewer shows (eval_history, wdl_history) belongs
\* to the game that is selected: a run for game A that completes after the
\* user selected game B does not put A's results in the place of B's.
C28_ShownEvaluationIsOfSelectedGame ==
    /\ eval_history # <<>> =>
           /\ selected_game_url # <<>>
           /\ EvaluatedUrl(eval_history[1]) = selected_game_url[1]
    /\ wdl_history # <<>> =>
           /\ selected_game_url # <<>>
           /\ eval_thread[wdl_history[1][1].run].url = selected_game_url[1]

(***************************************************************************)
(* The schema of the store: claim C22, under SpecSchema.                   *)
(***************************************************************************)
\* table new has every column and every row of table old, with the values
\* old has
Keeps(old, new) ==
    /\ old.columns \subseteq new.columns
    /\ DOMAIN new.rows = DOMAIN old.rows
    /\ \A u \in DOMAIN old.rows :
           \A c \in old.columns : new.rows[u][c] = old.rows[u][c]

\* C22: opening a store whose games table lacks time_control and/or
\* evaluation_data adds every expected column that is missing, leaves the
\* rows and the columns that exist as they are, and opening the result again
\* changes nothing; no column is dropped or renamed.
C22_OpenAddsMissingColumns ==
    (schema_opened.by # "none" /\ schema_opened.found # NoTable) =>
        /\ ExpectedColumns \subseteq schema_table.columns
        /\ Keeps(schema_opened.found, schema_table)
        /\ Opened(schema_opened.by, schema_table) = schema_table

(***************************************************************************)
(* The creation of a database: claims C21 and C30, under SpecCreate.       *)
(***************************************************************************)
\* the months create_new_database has asked the archive for
AnswersSoFar == {month_archives[new_db.fetched[i]] : i \in DOMAIN new_db.fetched}

\* the games of the months asked for so far
GamesSoFar ==
    UNION {{parse_pgn_games(a.text)[i] : i \in DOMAIN parse_pgn_games(a.text)} :
              a \in {b \in AnswersSoFar : b.status = "ok"}}

\* C21: a not-found answer of the archive for a month is a success with zero
\* records: it is not reported as an error and does not end the request, and
\* when the request has ended without another error the games of its other
\* months are in the store.
C21_NotFoundIsZeroRecords ==
    /\ (new_db.fetched # <<>>
          /\ month_archives[new_db.fetched[Len(new_db.fetched)]].status
               = "not_found")
         => (new_db.pc # "failed" /\ new_db.status # "Error")
    /\ (new_db.pc \in {"done", "failed"}
          /\ \A a \in AnswersSoFar : a.status # "error")
         => \A g \in GamesSoFar : g.url \in DOMAIN new_db_file.rows

\* the months from start to end in chronological order
Chronological(start, end) ==
    LET first == start.year * MonthsPerYear + (start.month - 1)
        last == end.year * MonthsPerYear + (end.month - 1)
    IN [i \in 1..(last - first + 1) |->
           Period(((first + i - 1) % MonthsPerYear) + 1,
                  (first + i - 1) \div MonthsPerYear)]

\* end is before start
EndsBeforeStart(start, end) ==
    \/ end.year < start.year
    \/ (end.year = start.year /\ end.month < start.month)

\* the months the loop has yet to fetch
MonthsLeft(nd) ==
    (nd.end.year - nd.current_year) * MonthsPerYear
      + (nd.end.month - nd.current_month + 1)

\* C30: for valid dates with end not before start the loop of
\* create_new_database ends (every pass leaves fewer months) after it has
\* fetched every month from start to end once, in chronological order, with
\* months_processed = total_months = (end_year - start_year) * 12 +
\* (end_month - start_month + 1), whatever the archive holds for the months;
\* a range with end before start is rejected before any fetch or change of
\* the store.
C30_LoopFetchesEveryMonthOnce ==
    /\ []((new_db.pc \in {"done", "failed"}
            /\ \A a \in AnswersSoFar : a.status # "error")
          => /\ new_db.pc = "done"
             /\ new_db.fetched = Chronological(new_db.start, new_db.end)
             /\ new_db.months_processed = new_db.total_months
             /\ new_db.total_months =
                  (new_db.end.year - new_db.start.year) * 12
                    + (new_db.end.month - new_db.start.month + 1))
    /\ []((new_db.pc # "idle" /\ EndsBeforeStart(new_db.start, new_db.end))
          => (new_db.pc = "rejected" /\ new_db.fetched = <<>>))
    /\ [][new_db'.pc = "rejected" => new_db_file' = new_db_file]_vars
    /\ [][(new_db.pc = "loop" /\ new_db'.pc = "loop")
            => (MonthsLeft(new_db') < MonthsLeft(new_db)
                  /\ MonthsLeft(new_db') >= 0)]_vars

(***************************************************************************)
(* The switch of the tracked user: claims C27 and C29, under SpecSettings. *)
(***************************************************************************)
\* show_settings has just returned with another user than before
UserSwitched ==
    /\ last_op.op = "show_settings"
    /\ last_op.arg[1] # last_op.arg[2]

\* C27: after the tracked user was switched through the settings the rating
\* cache holds no points of the previous user, and the replay state (moves,
\* index, board) is that of a game of the new store, or empty when the new
\* store has no games.
C27_SwitchInvalidatesCaches ==
    UserSwitched =>
        /\ \/ cached_processed_games_for_user = <<>>
           \/ current_elo_plot_user = <<current_user>>
        /\ IF games # <<>>
           THEN /\ selection \in 1..Len(games)
                /\ moves = Mainline(games[selection].pgn)
                /\ board = GameBoard(games[selection].pgn)
                /\ idx = 0
           ELSE moves = <<>> /\ idx = 0

\* C29: whenever the viewer reads evaluation_data (on_game_select, also the
\* one show_settings runs on the first game) or writes it (the UPDATE of an
\* evaluation run), the games table of the database file exists and has the
\* column, also after the file was switched through the settings.
C29_EvaluationColumnExists ==
    /\ [](((last_op.op = "on_game_select")
             \/ (last_op.op = "show_settings" /\ selection # 0))
           => "evaluation_data" \in db_columns)
    /\ [][(\E r \in Runs : eval_thread[r].pc = "store"
                             /\ eval_thread'[r].pc = "done")
            => "evaluation_data" \in db_columns]_vars

=============================================================================
